---- MODULE Spec2Model ----
(***************************************************************************)
(* LABA_Orari: schedule tables extracted from PDF documents are turned     *)
(* into dated lesson events.  The model follows extract_pdf_schedules.py   *)
(* (time-range parser, group extractor, cell lexer, weekly expansion,      *)
(* event builder), fix_timezone.py (DST rule) and process_all_pdfs.py (the  *)
(* batch driver).  Text is modelled as TLA+ strings, read character by     *)
(* character the way the regular expressions of the source read it.        *)
(***************************************************************************)
EXTENDS Integers, Sequences, FiniteSets, TLC

VARIABLES
    pc,                 \* position of the running script
    time_str,           \* parse_time: the argument
    time_result,        \* parse_time: <<>> before the call, <<r>> after it
    cell_text,          \* parse_cell_content: the argument
    lines,              \* parse_cell_content: trimmed non-empty lines
    i,                  \* parse_cell_content: index of the next line (1-based)
    current_lesson,     \* parse_cell_content: the accumulator
    lessons_from_cell,  \* parse_cell_content: the templates emitted so far
    anno,               \* extract_lessons_from_pdf: year of the course
    semestre,           \* extract_lessons_from_pdf: requested semester
    base_year,          \* extract_lessons_from_pdf: base year of the window
    weekday,            \* extract_lessons_from_pdf: weekday of the column
    current_date,       \* extract_lessons_from_pdf: cursor of the weekly loop
    lesson_dates,       \* the dates for which the weekly loop created events
    lessons,            \* extract_lessons_from_pdf: the events produced
    has_zoneinfo,       \* whether the ZoneInfo import succeeded
    date_str,           \* get_correct_timezone: the argument
    tz_result,          \* get_correct_timezone: <<>> before the call, <<r>> after
    input,              \* how the argument in hand was put together (never read
                        \* by an action)
    pdfs,               \* process_all_pdfs.main: the list scan_pdfs returned
    skip_merge,         \* process_all_pdfs.main: args.skip_merge
    pdf_idx,            \* process_all_pdfs.main: position of the loop of line 278
    all_generated,      \* process_all_pdfs.main: the files generated
    sem_queue,          \* process_pdf: the semesters still to run
    generated_files,    \* process_pdf: the files generated from this PDF
    runs,               \* the subprocess runs made so far, with their return codes
    disk,               \* the JSON files present in the output directory
    pages,              \* extract_lessons_from_pdf: pdf.pages, what each one gives
    page_idx,           \* extract_lessons_from_pdf: position of the loop of line 318
    table_idx,          \* extract_lessons_from_pdf: position of the loop of line 326
    semester_row,       \* extract_lessons_from_pdf: row of the requested semester
    day_queue,          \* extract_lessons_from_pdf: day columns still to read
    event_arg,          \* fix_timezone_in_event, fix_hour_in_event: the argument
    fixed,              \* fix_timezone_in_event, fix_hour_in_event: <<>> or <<r>>
    events,             \* the downstream steps: the list of events in hand
    corso_studio,       \* the downstream steps: the course of study of the file
    mapping,            \* enrich_events_with_oid: normalised name -> identifier
    updated,            \* the downstream steps: <<>> or the steps applied so far
    text_arg,           \* extract_group_from_text: the argument
    group_result,       \* extract_group_from_text: <<>> before the call, <<r>> after
    course_name,        \* find_course_code: the argument
    course_code,        \* find_course_code: <<>> before the call, <<r>> after
    s1_data,            \* merge_semesters.main: the events of the first file
    s2_data,            \* merge_semesters.main: the events of the second file
    merged_data         \* merge_semesters.main: <<>> or <<the list merged saved>>

\* the variables of the scripts around the extraction
batch_vars == <<pdfs, skip_merge, pdf_idx, all_generated, sem_queue, generated_files,
                runs, disk>>
table_vars == <<pages, page_idx, table_idx, semester_row, day_queue>>
fix_vars == <<event_arg, fixed>>
step_vars == <<events, corso_studio, mapping, updated>>
group_vars == <<text_arg, group_result>>
course_vars == <<course_name, course_code>>
merge_vars == <<s1_data, s2_data, merged_data>>
other_vars == <<fix_vars, step_vars, group_vars, course_vars, merge_vars>>
tool_vars == <<batch_vars, table_vars, other_vars>>

\* the variables of the extraction and of the DST rule
extract_vars == <<time_str, time_result, cell_text, lines, i, current_lesson,
                  lessons_from_cell, anno, semestre, base_year, weekday, current_date,
                  lesson_dates, lessons, has_zoneinfo, date_str, tz_result>>

vars == <<pc, time_str, time_result, cell_text, lines, i, current_lesson,
          lessons_from_cell, anno, semestre, base_year, weekday, current_date,
          lesson_dates, lessons, has_zoneinfo, date_str, tz_result, input, tool_vars>>

(***************************************************************************)
(* Bounds of the model.                                                    *)
(***************************************************************************)
\* base_year ranges over 2023 .. 2023 + MaxYearSpan
MaxYearSpan == 2
\* get_correct_timezone is applied to the years 2019 .. 2019 + MaxDstYears
MaxDstYears == 9
\* free cells have at most MaxCellLines lines
MaxCellLines == 3

(***************************************************************************)
(* Optional values: None is the empty sequence, a present value v is <<v>>.*)
(* A time range (h1, m1, h2, m2) is the 4-tuple itself.                    *)
(***************************************************************************)
None == <<>>
Some(v) == <<v>>
Truthy(opt) == opt # None /\ opt # <<"">>

(***************************************************************************)
(* Characters and strings.                                                 *)
(***************************************************************************)
Char(s, k) == IF k \in 1..Len(s) THEN SubSeq(s, k, k) ELSE ""

DigitChars == <<"0", "1", "2", "3", "4", "5", "6", "7", "8", "9">>
DigitSet == {DigitChars[d] : d \in 1..10}
DigitValue == [c \in DigitSet |-> (CHOOSE d \in 1..10 : DigitChars[d] = c) - 1]
IsDigit(c) == c \in DigitSet
DigitVal(c) == DigitValue[c]

UpperChars == "ABCDEFGHIJKLMNOPQRSTUVWXYZ"
LowerChars == "abcdefghijklmnopqrstuvwxyz"
UpperSet == {Char(UpperChars, k) : k \in 1..26}
LowerSet == {Char(LowerChars, k) : k \in 1..26}
ToUpper == [c \in LowerSet |-> Char(UpperChars, CHOOSE k \in 1..26 : Char(LowerChars, k) = c)]
ToLower == [c \in UpperSet |-> Char(LowerChars, CHOOSE k \in 1..26 : Char(UpperChars, k) = c)]
IsUpper(c) == c \in UpperSet
IsLower(c) == c \in LowerSet
\* str.upper() and str.lower(), one character
UpperChar(c) == IF c \in LowerSet THEN ToUpper[c] ELSE c
LowerChar(c) == IF c \in UpperSet THEN ToLower[c] ELSE c

\* \s of the regular expressions, and what str.strip() removes
IsSpace(c) == c \in {" ", "\t", "\n", "\r"}

RECURSIVE MapChars(_, _, _)
MapChars(s, k, upper) ==
    IF k > Len(s) THEN ""
    ELSE (IF upper THEN UpperChar(Char(s, k)) ELSE LowerChar(Char(s, k)))
         \o MapChars(s, k + 1, upper)
Upper(s) == MapChars(s, 1, TRUE)
Lower(s) == MapChars(s, 1, FALSE)

\* str.strip()
Strip(s) ==
    LET keep == {k \in 1..Len(s) : ~IsSpace(Char(s, k))}
    IN  IF keep = {} THEN ""
        ELSE SubSeq(s, CHOOSE a \in keep : \A b \in keep : a <= b,
                       CHOOSE a \in keep : \A b \in keep : a >= b)

\* str.replace(" ", "")
RECURSIVE RemoveBlanks(_, _)
RemoveBlanks(s, k) ==
    IF k > Len(s) THEN ""
    ELSE (IF Char(s, k) = " " THEN "" ELSE Char(s, k)) \o RemoveBlanks(s, k + 1)

\* sub in s
StartsAt(s, k, sub) == k + Len(sub) - 1 <= Len(s) /\ SubSeq(s, k, k + Len(sub) - 1) = sub
Contains(s, sub) == \E k \in 1..(Len(s) + 1) : StartsAt(s, k, sub)

\* end of a greedy \s* that starts at position q
SkipSpaces(s, q) ==
    CHOOSE e \in q..(Len(s) + 1) :
        /\ \A k \in q..(e - 1) : IsSpace(Char(s, k))
        /\ e = Len(s) + 1 \/ ~IsSpace(Char(s, e))

Min(S) == CHOOSE a \in S : \A b \in S : a <= b
Max(S) == CHOOSE a \in S : \A b \in S : a >= b

(***************************************************************************)
(* parse_time                                                              *)
(***************************************************************************)
DigitsAt(s, q, n) == q + n - 1 <= Len(s) /\ \A k \in q..(q + n - 1) : IsDigit(Char(s, k))

\* int() of a run of n decimal digits at q
RECURSIVE IntAt(_, _, _)
IntAt(s, q, n) ==
    IF n = 0 THEN 0
    ELSE IntAt(s, q, n - 1) * 10 + DigitVal(Char(s, q + n - 1))

\* (\d{n1})SEP(\d{2})\s*-\s*(\d{n2})SEP(\d{2}) matched at position p
TimeGroupsAt(s, p, sep, n1, n2) ==
    LET a == p + n1              \* first separator
        b == SkipSpaces(s, a + 3)   \* the dash
        c == SkipSpaces(s, b + 1)   \* second hour
        d == c + n2              \* second separator
    IN  IF /\ DigitsAt(s, p, n1)
           /\ StartsAt(s, a, sep)
           /\ DigitsAt(s, a + 1, 2)
           /\ StartsAt(s, b, "-")
           /\ DigitsAt(s, c, n2)
           /\ StartsAt(s, d, sep)
           /\ DigitsAt(s, d + 1, 2)
        THEN <<IntAt(s, p, n1), IntAt(s, a + 1, 2), IntAt(s, c, n2), IntAt(s, d + 1, 2)>>
        ELSE None

\* the first candidate that is not None, in the order of the indices
FirstSome(cands) ==
    LET ks == {k \in DOMAIN cands : cands[k] # None}
    IN  IF ks = {} THEN None ELSE cands[Min(ks)]

\* \d{1,2} is greedy: two digits are tried before one, the first hour first
GreedyLengths == << <<2, 2>>, <<2, 1>>, <<1, 2>>, <<1, 1>> >>

\* the match at p
MatchTimeAt(s, p, sep) ==
    FirstSome([c \in 1..4 |->
                 TimeGroupsAt(s, p, sep, GreedyLengths[c][1], GreedyLengths[c][2])])

\* re.search: the leftmost match
SearchTime(s, sep) == FirstSome([p \in 1..Len(s) |-> MatchTimeAt(s, p, sep)])

\* the bounds of line 53 taken as exclusive at the top
ValidTimeExclusive(t) ==
    /\ 0 <= t[1] /\ t[1] < 23 /\ 0 <= t[2] /\ t[2] < 59
    /\ 0 <= t[3] /\ t[3] < 23 /\ 0 <= t[4] /\ t[4] < 59

\* the bounds of line 53 taken one too far
ValidTimeInclusive(t) ==
    /\ 0 <= t[1] /\ t[1] <= 24 /\ 0 <= t[2] /\ t[2] <= 60
    /\ 0 <= t[3] /\ t[3] <= 24 /\ 0 <= t[4] /\ t[4] <= 60

\* line 53
ValidTime(t) ==
    /\ 0 <= t[1] /\ t[1] <= 23 /\ 0 <= t[2] /\ t[2] <= 59
    /\ 0 <= t[3] /\ t[3] <= 23 /\ 0 <= t[4] /\ t[4] <= 59

\* lines 50-54: a match is returned when its components are valid
ValidMatch(t) == IF t # None /\ ValidTime(t) THEN t ELSE None

\* the two patterns of lines 43-46, in their order
TimePatterns == <<".", ":">>

parse_time(s0) ==
    IF s0 = "" THEN None
    ELSE FirstSome([k \in 1..2 |->
                      ValidMatch(SearchTime(RemoveBlanks(Strip(s0), 1), TimePatterns[k]))])

(***************************************************************************)
(* extract_group_from_text                                                 *)
(***************************************************************************)
IsWordChar(c) == IsUpper(c) \/ IsLower(c) \/ IsDigit(c) \/ c = "_"

\* [Gg] followed by the rest of the keyword, at position p
KeywordAt(s, p, rest) == Char(s, p) \in {"G", "g"} /\ StartsAt(s, p + 1, rest)

\* the upper-case letter at q, if there is one
UpperAt(s, q) == IF IsUpper(Char(s, q)) THEN Some(Char(s, q)) ELSE None

\* [Gg]<rest>\s*([A-Z]) matched at p: the letter
KeywordLetterAt(s, p, rest) ==
    IF KeywordAt(s, p, rest) THEN UpperAt(s, SkipSpaces(s, p + 1 + Len(rest))) ELSE None

\* \b([A-Z])\s*[Gg]ruppo matched at p
LetterKeywordAt(s, p) ==
    /\ IsUpper(Char(s, p))
    /\ p = 1 \/ ~IsWordChar(Char(s, p - 1))
    /\ KeywordAt(s, SkipSpaces(s, p + 1), "ruppo")

\* ^([A-Z])\s*[-:]
LetterDashAtStart(s) ==
    /\ Len(s) >= 1
    /\ IsUpper(Char(s, 1))
    /\ Char(s, SkipSpaces(s, 2)) \in {"-", ":"}

\* the letter captured by the k-th pattern of lines 103-108 when it matches at p
GroupPatternAt(s, p, k) ==
    CASE k = 1 -> KeywordLetterAt(s, p, "ruppo")
      [] k = 2 -> KeywordLetterAt(s, p, "r.")
      [] k = 3 -> IF LetterKeywordAt(s, p) THEN Some(Char(s, p)) ELSE None
      [] OTHER -> IF p = 1 /\ LetterDashAtStart(s) THEN Some(Char(s, 1)) ELSE None

\* re.search(pattern k, s): the letter of the leftmost match
GroupMatch(s, k) == FirstSome([p \in 1..Len(s) |-> GroupPatternAt(s, p, k)])

GroupLetters == {"A", "B", "C", "Y", "Z"}

\* lines 113-115: the match counts when its letter is one of the five
AllowedLetter(m) ==
    IF m # None /\ UpperChar(m[1]) \in GroupLetters THEN Some(UpperChar(m[1])) ELSE None

extract_group_from_text(text) ==
    IF text = "" THEN None
    ELSE FirstSome([k \in 1..4 |-> AllowedLetter(GroupMatch(text, k))])

(***************************************************************************)
(* The instructor line: removal of the title                               *)
(***************************************************************************)
\* end of a greedy \s+ that starts at q, or 0 when there is no whitespace at q
SpacesEnd(s, q) ==
    IF q <= Len(s) /\ IsSpace(Char(s, q)) THEN SkipSpaces(s, q) ELSE 0

StartsAtNoCase(s, k, sub) ==
    k + Len(sub) - 1 <= Len(s) /\ Lower(SubSeq(s, k, k + Len(sub) - 1)) = sub

\* The five title forms, matched at p without regard to case.  The value is
\* the position after the match, or 0.
\*   1: Prof\.?\s*ssa\s+   2: Prof\.ssa\s+   3: Prof\s+ssa\s+
\*   4: Prof\.\s+          5: Prof\s+
TitleEnd(s, p, k) ==
    IF ~StartsAtNoCase(s, p, "prof") THEN 0
    ELSE LET a == p + 4
             dot == StartsAt(s, a, ".")
         IN  CASE k = 1 ->
                    LET b == SkipSpaces(s, IF dot THEN a + 1 ELSE a)
                    IN  IF StartsAtNoCase(s, b, "ssa") THEN SpacesEnd(s, b + 3) ELSE 0
               [] k = 2 ->
                    IF dot /\ StartsAtNoCase(s, a + 1, "ssa") THEN SpacesEnd(s, a + 4) ELSE 0
               [] k = 3 ->
                    LET b == SpacesEnd(s, a)
                    IN  IF b # 0 /\ StartsAtNoCase(s, b, "ssa") THEN SpacesEnd(s, b + 3) ELSE 0
               [] k = 4 ->
                    IF dot THEN SpacesEnd(s, a + 1) ELSE 0
               [] OTHER -> SpacesEnd(s, a)

\* the end of the nearest title k at or after pos, None when there is none
NearestTitleEnd(s, pos, k) ==
    FirstSome([p \in pos..Len(s) |-> IF TitleEnd(s, p, k) # 0 THEN Some(TitleEnd(s, p, k)) ELSE None])

\* re.sub(r'.*?<title k>', '', s): from pos on, everything up to the end of
\* the nearest title is removed, again and again; the rest is kept.
RECURSIVE SubTitle(_, _, _)
SubTitleAfter(s, pos, k, e) ==
    IF e = None THEN SubSeq(s, pos, Len(s)) ELSE SubTitle(s, e[1], k)
SubTitle(s, pos, k) == SubTitleAfter(s, pos, k, NearestTitleEnd(s, pos, k))

\* re.sub(r'\([^)]*\)', '', s)
RECURSIVE SubParens(_, _)
SubParens(s, pos) ==
    LET closing == {q \in pos..Len(s) : Char(s, q) = ")"}
        opening == {p \in pos..Len(s) : Char(s, p) = "(" /\ \E q \in closing : q > p}
    IN  IF opening = {} THEN SubSeq(s, pos, Len(s))
        ELSE LET p == Min(opening)
                 q == Min({c \in closing : c > p})
             IN  SubSeq(s, pos, p - 1) \o SubParens(s, q + 1)

\* re.sub(r'\s+', ' ', s)
RECURSIVE CollapseSpaces(_, _)
CollapseSpaces(s, pos) ==
    IF pos > Len(s) THEN ""
    ELSE IF IsSpace(Char(s, pos)) THEN " " \o CollapseSpaces(s, SkipSpaces(s, pos))
    ELSE Char(s, pos) \o CollapseSpaces(s, pos + 1)

\* re.sub(r'^ssa\s+', '', s) and re.sub(r'^ssa/', '', s), without regard to case
SubLeadingSsa(s) ==
    IF StartsAtNoCase(s, 1, "ssa") /\ SpacesEnd(s, 4) # 0
    THEN SubSeq(s, SpacesEnd(s, 4), Len(s)) ELSE s
SubLeadingSsaSlash(s) ==
    IF StartsAtNoCase(s, 1, "ssa/") THEN SubSeq(s, 5, Len(s)) ELSE s

\* lines 193-206: the k-th substitution, each followed by strip()
TitlePass(s, k) ==
    CASE k \in 1..5 -> Strip(SubTitle(s, 1, k))
      [] k = 6 -> Strip(SubLeadingSsa(s))
      [] k = 7 -> Strip(SubLeadingSsaSlash(s))
      [] k = 8 -> Strip(SubParens(s, 1))
      [] OTHER -> Strip(CollapseSpaces(s, 1))

RECURSIVE TitlePasses(_, _)
TitlePasses(s, k) == IF k > 9 THEN s ELSE TitlePasses(TitlePass(s, k), k + 1)

\* lines 187-206: what is left of an instructor line
StripTitle(line) == TitlePasses(Strip(line), 1)

(***************************************************************************)
(* Room lines                                                              *)
(***************************************************************************)
RoomKeywords == {"LAB", "CONFERENCE", "MAGNA", "DIGITAL", "HUB", "VISUAL", "PHOTO", "3D"}
\* the keywords that keep the line after an empty title from being a surname
NotSurnameKeywords == RoomKeywords \cup {"VIA", "FINLANDIA", "PITTURA", "MOVIE", "HALL"}

ContainsAny(s, keywords) == \E kw \in keywords : Contains(s, kw)
\* any(keyword in line.upper() for keyword in keywords)
HasKeyword(line, keywords) == ContainsAny(Upper(line), keywords)

\* re.sub(r'\s*\(portatili\)', '', aula, flags=re.IGNORECASE)
RECURSIVE SubPortatili(_, _)
SubPortatili(s, pos) ==
    LET ps == {p \in pos..Len(s) : StartsAtNoCase(s, SkipSpaces(s, p), "(portatili)")}
    IN  IF ps = {} THEN SubSeq(s, pos, Len(s))
        ELSE LET p == Min(ps)
             IN  SubSeq(s, pos, p - 1) \o SubPortatili(s, SkipSpaces(s, p) + 11)

\* the room line kept as it is
RoomOfVerbatim(line) == Strip(line)

\* lines 237-239
RoomOf(line) == Strip(SubPortatili(Strip(line), 1))

\* re.match(r'^[A-Za-z...\s\'\-/]+$', next_line) and len(next_line) > 2
IsLikelyName(s) ==
    /\ Len(s) > 2
    /\ \A k \in 1..Len(s) :
          LET c == Char(s, k)
          IN  IsUpper(c) \/ IsLower(c) \/ IsSpace(c) \/ c \in {"'", "-", "/"}

(***************************************************************************)
(* datetime: the proleptic Gregorian calendar.  A date is its ordinal      *)
(* (date.toordinal()), a datetime is [date, hour, minute, second].         *)
(***************************************************************************)
IsLeap(y) == (y % 4 = 0 /\ y % 100 # 0) \/ y % 400 = 0

DaysInMonth(y, m) ==
    IF m = 2 THEN (IF IsLeap(y) THEN 29 ELSE 28)
    ELSE IF m \in {4, 6, 9, 11} THEN 30 ELSE 31

DaysBeforeYear(y) ==
    LET p == y - 1 IN p * 365 + (p \div 4) - (p \div 100) + (p \div 400)

RECURSIVE DaysBeforeMonth(_, _)
DaysBeforeMonth(y, m) ==
    IF m = 1 THEN 0 ELSE DaysBeforeMonth(y, m - 1) + DaysInMonth(y, m - 1)

Ordinal(y, m, d) == DaysBeforeYear(y) + DaysBeforeMonth(y, m) + d

YearOf(ord) ==
    CHOOSE y \in (ord \div 366)..((ord \div 365) + 1) :
        Ordinal(y, 1, 1) <= ord /\ ord < Ordinal(y + 1, 1, 1)
MonthOf(ord) ==
    LET y == YearOf(ord)
    IN  CHOOSE m \in 1..12 :
            Ordinal(y, m, 1) <= ord /\ ord < Ordinal(y, m, 1) + DaysInMonth(y, m)
DayOf(ord) == ord - Ordinal(YearOf(ord), MonthOf(ord), 1) + 1

\* date.weekday(): 0 = Monday .. 6 = Sunday
WeekdayOf(ord) == (ord + 6) % 7

\* datetime(y, m, d)
Datetime(y, m, d) == [date |-> Ordinal(y, m, d), hour |-> 0, minute |-> 0, second |-> 0]

\* date.replace(hour=h, minute=m, second=0, microsecond=0)
ReplaceTime(dt, h, m) == [dt EXCEPT !.hour = h, !.minute = m, !.second = 0]

\* dt + timedelta(hours=n)
AddHours(dt, n) ==
    LET total == dt.date * 24 + dt.hour + n
    IN  [dt EXCEPT !.date = total \div 24, !.hour = total % 24]

\* dt + timedelta(days=n)
AddDays(dt, n) == [dt EXCEPT !.date = dt.date + n]

\* the order of naive datetimes
SecondOfDay(dt) == (dt.hour * 60 + dt.minute) * 60 + dt.second
DtLess(a, b) ==
    a.date < b.date \/ (a.date = b.date /\ SecondOfDay(a) < SecondOfDay(b))
DtLeq(a, b) == a = b \/ DtLess(a, b)

\* "%02d" and "%04d"
RECURSIVE Pad(_, _)
Pad(n, width) ==
    IF width = 0 THEN ""
    ELSE Pad(n \div 10, width - 1) \o DigitChars[(n % 10) + 1]

\* strftime("%Y-%m-%dT%H:%M:%S"); isoformat() of a datetime without microseconds
FormatNaive(dt) ==
    Pad(YearOf(dt.date), 4) \o "-" \o Pad(MonthOf(dt.date), 2) \o "-"
        \o Pad(DayOf(dt.date), 2) \o "T" \o Pad(dt.hour, 2) \o ":"
        \o Pad(dt.minute, 2) \o ":" \o Pad(dt.second, 2)

(***************************************************************************)
(* The last Sundays of March and October                                   *)
(***************************************************************************)
\* for day in range(31, 24, -1): the first Sunday met, None when the loop
\* ends without one (the name would be unbound at the return)
LastSunday(year, month) ==
    LET ds == {d \in 25..31 : WeekdayOf(Ordinal(year, month, d)) = 6}
    IN  IF ds = {} THEN None ELSE Some(Datetime(year, month, Max(ds)))

\* get_dst_transition_dates: (inizio_cest, fine_cest), None when it raises
get_dst_transition_dates(year) ==
    IF LastSunday(year, 3) = None \/ LastSunday(year, 10) = None THEN None
    ELSE <<LastSunday(year, 3)[1], LastSunday(year, 10)[1]>>

(***************************************************************************)
(* ZoneInfo("Europe/Rome"): utcoffset of a local time (fold = 0).  Summer  *)
(* time runs from 02:00 local (which becomes 03:00) on the last Sunday of  *)
(* March to 03:00 local (which becomes 02:00) on the last Sunday of        *)
(* October; a local time in the skipped hour has the winter offset, one in *)
(* the repeated hour the summer offset.                                    *)
(***************************************************************************)
RomeOffset(dt) ==
    LET y == YearOf(dt.date)
        on == ReplaceTime(LastSunday(y, 3)[1], 3, 0)
        off == ReplaceTime(LastSunday(y, 10)[1], 3, 0)
    IN  IF DtLeq(on, dt) /\ DtLess(dt, off) THEN "+02:00" ELSE "+01:00"

(***************************************************************************)
(* create_lesson_event                                                     *)
(***************************************************************************)
\* lines 476-480: the offset chosen when ZoneInfo is None
FallbackOffset(dt) ==
    IF 4 <= MonthOf(dt.date) /\ MonthOf(dt.date) <= 9 THEN "+02:00" ELSE "+01:00"

\* line 461: timedelta(hours=1)
CaptureOffsetHours == 1

\* the time of the template left as extracted
CorrectCaptureOffsetNone(dt) == dt

\* lines 461-462
CorrectCaptureOffset(dt) == AddHours(dt, CaptureOffsetHours)

create_lesson_event(corso, anno_arg, gruppo, aula, docente, date, start_time, end_time, note, zi) ==
    LET start_naive == CorrectCaptureOffset(ReplaceTime(date, start_time[1], start_time[2]))
        end_naive == CorrectCaptureOffset(ReplaceTime(date, end_time[1], end_time[2]))
        start_iso == IF zi THEN FormatNaive(start_naive) \o RomeOffset(start_naive)
                     ELSE FormatNaive(start_naive) \o FallbackOffset(start_naive)
        end_iso == IF zi THEN FormatNaive(end_naive) \o RomeOffset(end_naive)
                   ELSE FormatNaive(end_naive) \o FallbackOffset(start_naive)
    IN  [corso |-> corso, oidCorso |-> None, oidCorsi |-> None, anno |-> anno_arg,
         gruppo |-> gruppo, aula |-> aula, docente |-> docente,
         start |-> start_iso, end |-> end_iso, note |-> note]

(***************************************************************************)
(* get_semester_dates, get_weekday_number                                  *)
(***************************************************************************)
get_semester_dates(sem, year) ==
    IF sem = 1
    THEN <<Datetime(year, 10, 1), Datetime(year + 1, 1, 31)>>
    ELSE <<Datetime(year + 1, 2, 1), Datetime(year + 1, 5, 31)>>

\* the six day names of the header, in the order of day_names
DayNames == <<"LUNEDI", "MARTEDI", "MERCOLEDI", "GIOVEDI", "VENERDI", "SABATO">>

\* get_weekday_number: the table of day names, -1 for an unknown name
WeekdayTable ==
    << <<"lunedi", 0>>, <<"lun", 0>>, <<"martedi", 1>>, <<"mar", 1>>,
       <<"mercoledi", 2>>, <<"mer", 2>>, <<"giovedi", 3>>, <<"gio", 3>>,
       <<"venerdi", 4>>, <<"ven", 4>>, <<"sabato", 5>>, <<"sab", 5>>,
       <<"domenica", 6>>, <<"dom", 6>> >>
get_weekday_number(day_name) ==
    LET ks == {k \in 1..Len(WeekdayTable) : WeekdayTable[k][1] = Lower(day_name)}
    IN  IF ks = {} THEN -1 ELSE WeekdayTable[Min(ks)][2]

(***************************************************************************)
(* datetime.fromisoformat, for the texts the scripts exchange:              *)
(* YYYY-MM-DD, optionally followed by T or a blank and HH:MM:SS, optionally *)
(* followed by +HH:MM or -HH:MM.  None stands for ValueError.               *)
(***************************************************************************)
IsoDateAt(s) ==
    /\ DigitsAt(s, 1, 4) /\ StartsAt(s, 5, "-") /\ DigitsAt(s, 6, 2)
    /\ StartsAt(s, 8, "-") /\ DigitsAt(s, 9, 2)
    /\ IntAt(s, 1, 4) >= 1
    /\ IntAt(s, 6, 2) \in 1..12
    /\ IntAt(s, 9, 2) \in 1..DaysInMonth(IntAt(s, 1, 4), IntAt(s, 6, 2))

IsoTimeAt(s, q) ==
    /\ DigitsAt(s, q, 2) /\ StartsAt(s, q + 2, ":") /\ DigitsAt(s, q + 3, 2)
    /\ StartsAt(s, q + 5, ":") /\ DigitsAt(s, q + 6, 2)
    /\ IntAt(s, q, 2) <= 23 /\ IntAt(s, q + 3, 2) <= 59 /\ IntAt(s, q + 6, 2) <= 59

IsoOffsetAt(s, q) ==
    /\ Char(s, q) \in {"+", "-"}
    /\ DigitsAt(s, q + 1, 2) /\ StartsAt(s, q + 3, ":") /\ DigitsAt(s, q + 4, 2)
    /\ IntAt(s, q + 1, 2) <= 23 /\ IntAt(s, q + 4, 2) <= 59

\* the value is Some([dt |-> naive datetime, tz |-> None or Some(minutes)])
fromisoformat(s) ==
    IF ~IsoDateAt(s) THEN None
    ELSE LET day == Datetime(IntAt(s, 1, 4), IntAt(s, 6, 2), IntAt(s, 9, 2))
         IN  IF Len(s) = 10 THEN Some([dt |-> day, tz |-> None])
             ELSE IF ~(Char(s, 11) \in {"T", " "} /\ IsoTimeAt(s, 12)) THEN None
             ELSE LET dt == [day EXCEPT !.hour = IntAt(s, 12, 2),
                                       !.minute = IntAt(s, 15, 2),
                                       !.second = IntAt(s, 18, 2)]
                  IN  IF Len(s) = 19 THEN Some([dt |-> dt, tz |-> None])
                      ELSE IF Len(s) = 25 /\ IsoOffsetAt(s, 20)
                      THEN Some([dt |-> dt,
                                 tz |-> Some((IF Char(s, 20) = "-" THEN -1 ELSE 1)
                                             * (IntAt(s, 21, 2) * 60 + IntAt(s, 24, 2)))])
                      ELSE None

(***************************************************************************)
(* get_correct_timezone                                                    *)
(***************************************************************************)
\* date_str.split('+')[0]
BeforePlus(s) == SubSeq(s, 1, Min({k \in 1..Len(s) : Char(s, k) = "+"}) - 1)

\* date_str.replace('Z', '')
RECURSIVE RemoveZ(_, _)
RemoveZ(s, k) ==
    IF k > Len(s) THEN ""
    ELSE (IF Char(s, k) = "Z" THEN "" ELSE Char(s, k)) \o RemoveZ(s, k + 1)

\* inizio_cest < dt < fine_cest
InCestLate(dt, trans) == DtLess(trans[1], dt) /\ DtLess(dt, trans[2])

\* line 69: inizio_cest <= dt < fine_cest
InCest(dt, trans) == DtLeq(trans[1], dt) /\ DtLess(dt, trans[2])

\* Every exception of the try block gives the default "+02:00": a text that
\* is no timestamp, no Sunday found, a zoned datetime compared with a naive one.
get_correct_timezone(s) ==
    LET date_without_tz ==
            IF Contains(s, "+") THEN BeforePlus(s)
            ELSE IF Contains(s, "Z") THEN RemoveZ(s, 1)
            ELSE s
        parsed == fromisoformat(date_without_tz)
    IN  IF parsed = None THEN "+02:00"
        ELSE LET dt == parsed[1].dt
                 trans == get_dst_transition_dates(YearOf(dt.date))
             IN  IF trans = None \/ parsed[1].tz # None THEN "+02:00"
                 ELSE IF InCest(dt, trans) THEN "+02:00"
                 ELSE "+01:00"

(***************************************************************************)
(* parse_cell_content, one action per turn of the while loop               *)
(***************************************************************************)
\* current_lesson = {} : no field is set
EmptyLesson ==
    [time_range |-> None, corso |-> None, gruppo |-> None, docente |-> None, aula |-> None]

\* cell_text.split(): the cell cut at every whitespace
RECURSIVE SplitOnSpace(_, _)
SplitOnSpace(s, pos) ==
    LET ns == {k \in pos..Len(s) : IsSpace(Char(s, k))}
    IN  IF ns = {} THEN <<SubSeq(s, pos, Len(s))>>
        ELSE <<SubSeq(s, pos, Min(ns) - 1)>> \o SplitOnSpace(s, Min(ns) + 1)

\* cell_text.split('\n')
RECURSIVE SplitNewlines(_, _)
SplitNewlines(s, pos) ==
    LET ns == {k \in pos..Len(s) : Char(s, k) = "\n"}
    IN  IF ns = {} THEN <<SubSeq(s, pos, Len(s))>>
        ELSE <<SubSeq(s, pos, Min(ns) - 1)>> \o SplitNewlines(s, Min(ns) + 1)

\* [l.strip() for l in cell_text.split('\n') if l.strip()]
CellLines(text) ==
    LET raw == SplitNewlines(text, 1)
        stripped == [k \in 1..Len(raw) |-> Strip(raw[k])]
    IN  SelectSeq(stripped, LAMBDA l : l # "")

\* lines 209-212
InvalidDocente(docente) ==
    \/ docente = ""
    \/ Strip(Lower(docente)) \in {"ssa", "ssa/", "ssa/ ", "ssa\n", "ssa ", ""}
    \/ Len(Strip(Lower(docente))) <= 2

\* lines 218-224: the line after an instructor line is taken as the surname
CanBeSurname(next_line) ==
    /\ next_line # ""
    /\ ~HasKeyword(next_line, NotSurnameKeywords)
    /\ extract_group_from_text(next_line) = None
    /\ parse_time(next_line) = None
    /\ IsLikelyName(next_line)

\* lines 230-231: a name is kept when it is longer than 2 characters
ValidName(docente) ==
    IF docente # "" /\ Len(Strip(docente)) > 2 THEN Some(Strip(docente)) ELSE None

InstructorResult(docente, next_line, adopt) ==
    [name |-> ValidName(IF adopt THEN Strip(next_line[1]) ELSE docente),
     step |-> IF adopt THEN 2 ELSE 1]

\* next_line is None when the instructor line is the last line
InstructorChoice(docente, next_line) ==
    InstructorResult(docente, next_line,
                     InvalidDocente(docente) /\ next_line # None /\ CanBeSurname(next_line[1]))

\* lines 187-231 for the instructor line ls[k]: the name kept (None when no
\* valid name is found) and the number of lines consumed
InstructorStep(ls, k) ==
    InstructorChoice(StripTitle(ls[k]),
                     IF k + 1 <= Len(ls) THEN Some(Strip(ls[k + 1])) ELSE None)

\* line 231
WithInstructor(lesson, name) ==
    IF name # None THEN [lesson EXCEPT !.docente = name] ELSE lesson

\* the lesson that was open appended only when it has a course as well
ClosedByNextTimeStrict(lesson) == lesson.time_range # None /\ Truthy(lesson.corso)
\* line 151: the lesson that was open is appended when it has a time range
ClosedByNextTime(lesson) == lesson.time_range # None

\* the last lesson appended on its time range alone
ClosedAtEndLoose(lesson) == lesson.time_range # None

\* line 261: the last lesson is appended when it has a time range and a course
ClosedAtEnd(lesson) == lesson.time_range # None /\ Truthy(lesson.corso)

\* the classification of the line in hand (lines 148-236)
IsTimeLine(line) == parse_time(line) # None
\* the group is looked for in every line
IsGroupLineAlways(lesson, line) == extract_group_from_text(line) # None
\* lines 173-175
IsGroupLine(lesson, line) ==
    ~Truthy(lesson.gruppo) /\ extract_group_from_text(line) # None
IsProfLine(lesson, line) ==
    ~Truthy(lesson.docente) /\ Contains(Strip(Lower(line)), "prof")
IsRoomLine(lesson, line) ==
    ~Truthy(lesson.aula) /\ HasKeyword(line, RoomKeywords)
\* line.isdigit() and len(line) == 1
IsLoneDigit(line) == Len(line) = 1 /\ IsDigit(line)

\* lines 133-138: an empty cell or a cell of fewer than 2 lines gives []
CellReturnEmpty ==
    /\ pc = "cell"
    /\ Strip(cell_text) = "" \/ Len(CellLines(cell_text)) < 2
    /\ lines' = CellLines(cell_text)
    /\ lessons_from_cell' = <<>>
    /\ pc' = "parsed"
    /\ UNCHANGED <<time_str, time_result, cell_text, i, current_lesson, anno, semestre,
                   base_year, weekday, current_date, lesson_dates, lessons,
                   has_zoneinfo, date_str, tz_result, input, tool_vars>>

\* lines 136-142
CellBegin ==
    /\ pc = "cell"
    /\ Strip(cell_text) # "" /\ Len(CellLines(cell_text)) >= 2
    /\ lines' = CellLines(cell_text)
    /\ lessons_from_cell' = <<>>
    /\ current_lesson' = EmptyLesson
    /\ i' = 1
    /\ pc' = "scan"
    /\ UNCHANGED <<time_str, time_result, cell_text, anno, semestre, base_year, weekday,
                   current_date, lesson_dates, lessons, has_zoneinfo, date_str,
                   tz_result, input, tool_vars>>

Scanning == pc = "scan" /\ i <= Len(lines)

ScanFrame ==
    UNCHANGED <<pc, time_str, time_result, cell_text, lines, anno, semestre, base_year,
                weekday, current_date, lesson_dates, lessons, has_zoneinfo,
                date_str, tz_result, input, tool_vars>>

\* lines 148-163: a time range opens a new lesson
OpenLesson ==
    /\ Scanning
    /\ IsTimeLine(lines[i])
    /\ lessons_from_cell' = IF ClosedByNextTime(current_lesson)
                            THEN Append(lessons_from_cell, current_lesson)
                            ELSE lessons_from_cell
    /\ current_lesson' = [EmptyLesson EXCEPT !.time_range = parse_time(lines[i])]
    /\ i' = i + 1
    /\ ScanFrame

\* lines 166-168: no time range yet
SkipBeforeTime ==
    /\ Scanning
    /\ ~IsTimeLine(lines[i])
    /\ current_lesson.time_range = None
    /\ i' = i + 1
    /\ UNCHANGED <<current_lesson, lessons_from_cell>>
    /\ ScanFrame

InLesson == Scanning /\ ~IsTimeLine(lines[i]) /\ current_lesson.time_range # None

\* lines 173-178
TakeGroup ==
    /\ InLesson
    /\ IsGroupLine(current_lesson, lines[i])
    /\ current_lesson' = [current_lesson EXCEPT !.gruppo = extract_group_from_text(lines[i])]
    /\ i' = i + 1
    /\ UNCHANGED lessons_from_cell
    /\ ScanFrame

\* lines 184-233
TakeInstructor ==
    /\ InLesson
    /\ ~IsGroupLine(current_lesson, lines[i])
    /\ IsProfLine(current_lesson, lines[i])
    /\ current_lesson' = WithInstructor(current_lesson, InstructorStep(lines, i).name)
    /\ i' = i + InstructorStep(lines, i).step
    /\ UNCHANGED lessons_from_cell
    /\ ScanFrame

\* lines 236-242
TakeRoom ==
    /\ InLesson
    /\ ~IsGroupLine(current_lesson, lines[i])
    /\ ~IsProfLine(current_lesson, lines[i])
    /\ IsRoomLine(current_lesson, lines[i])
    /\ current_lesson' = [current_lesson EXCEPT !.aula = Some(RoomOf(lines[i]))]
    /\ i' = i + 1
    /\ UNCHANGED lessons_from_cell
    /\ ScanFrame

OtherLine ==
    /\ InLesson
    /\ ~IsGroupLine(current_lesson, lines[i])
    /\ ~IsProfLine(current_lesson, lines[i])
    /\ ~IsRoomLine(current_lesson, lines[i])

\* lines 246-256: the first other line is the course
TakeCourse ==
    /\ OtherLine
    /\ ~Truthy(current_lesson.corso)
    /\ ~IsLoneDigit(lines[i])
    /\ extract_group_from_text(lines[i]) = None
    /\ current_lesson' = [current_lesson EXCEPT !.corso = Some(Strip(lines[i]))]
    /\ i' = i + 1
    /\ UNCHANGED lessons_from_cell
    /\ ScanFrame

\* lines 248-254 and 258: a lone digit or a group line while the course is
\* not set, and any other line once it is set, are passed over
SkipLine ==
    /\ OtherLine
    /\ Truthy(current_lesson.corso)
          \/ IsLoneDigit(lines[i])
          \/ extract_group_from_text(lines[i]) # None
    /\ i' = i + 1
    /\ UNCHANGED <<current_lesson, lessons_from_cell>>
    /\ ScanFrame

\* lines 260-264
Flush ==
    /\ pc = "scan"
    /\ i > Len(lines)
    /\ lessons_from_cell' = IF ClosedAtEnd(current_lesson)
                            THEN Append(lessons_from_cell, current_lesson)
                            ELSE lessons_from_cell
    /\ pc' = "parsed"
    /\ UNCHANGED <<time_str, time_result, cell_text, lines, i, current_lesson, anno,
                   semestre, base_year, weekday, current_date, lesson_dates,
                   lessons, has_zoneinfo, date_str, tz_result, input, tool_vars>>

(***************************************************************************)
(* extract_lessons_from_pdf, from the cell on (lines 405-437)              *)
(***************************************************************************)
semester_start == get_semester_dates(semestre, base_year)[1]
semester_end == get_semester_dates(semestre, base_year)[2]

ExpandFrame ==
    UNCHANGED <<time_str, time_result, cell_text, lines, i, current_lesson,
                lessons_from_cell, anno, semestre, base_year, weekday, has_zoneinfo,
                date_str, tz_result, input, tool_vars>>

\* lines 407-408
NoLessons ==
    /\ pc = "parsed"
    /\ lessons_from_cell = <<>>
    /\ pc' = "done"
    /\ UNCHANGED <<current_date, lesson_dates, lessons>>
    /\ ExpandFrame

\* line 411
ExpandBegin ==
    /\ pc = "parsed"
    /\ lessons_from_cell # <<>>
    /\ current_date' = semester_start
    /\ pc' = "weeks"
    /\ UNCHANGED <<lesson_dates, lessons>>
    /\ ExpandFrame

\* days_until with the difference taken the other way round
NextOccurrenceBackward(cursor, wd) ==
    AddDays(cursor, (WeekdayOf(cursor.date) - wd) % 7)

\* lines 414-415: the first day of the target weekday on or after the cursor
NextOccurrence(cursor, wd) ==
    AddDays(cursor, (wd - WeekdayOf(cursor.date)) % 7)

\* the cursor moved on by two weeks
WeekStrideFortnight == 2 * 7

\* line 437
WeekStride == 7

EventsOf(templates, date) ==
    [k \in 1..Len(templates) |->
        create_lesson_event(templates[k].corso, anno, templates[k].gruppo,
                            templates[k].aula, templates[k].docente, date,
                            <<templates[k].time_range[1], templates[k].time_range[2]>>,
                            <<templates[k].time_range[3], templates[k].time_range[4]>>,
                            None, has_zoneinfo)]

\* lines 412-437: one week
WeekEmit ==
    /\ pc = "weeks"
    /\ DtLeq(current_date, semester_end)
    /\ LET lesson_date == NextOccurrence(current_date, weekday)
       IN  /\ DtLeq(lesson_date, semester_end)
           /\ lessons' = lessons \o EventsOf(lessons_from_cell, lesson_date)
           /\ lesson_dates' = Append(lesson_dates, lesson_date.date)
    /\ current_date' = AddDays(current_date, WeekStride)
    /\ UNCHANGED pc
    /\ ExpandFrame

\* lines 417-418
WeekBreak ==
    /\ pc = "weeks"
    /\ DtLeq(current_date, semester_end)
    /\ DtLess(semester_end, NextOccurrence(current_date, weekday))
    /\ pc' = "done"
    /\ UNCHANGED <<current_date, lesson_dates, lessons>>
    /\ ExpandFrame

\* line 412: the cursor is past the end
WeekExit ==
    /\ pc = "weeks"
    /\ DtLess(semester_end, current_date)
    /\ pc' = "done"
    /\ UNCHANGED <<current_date, lesson_dates, lessons>>
    /\ ExpandFrame

(***************************************************************************)
(* Calls of parse_time and of get_correct_timezone                         *)
(***************************************************************************)
ParseTimeCall ==
    /\ pc = "parse_time"
    /\ time_result' = Some(parse_time(time_str))
    /\ pc' = "parse_time_done"
    /\ UNCHANGED <<time_str, cell_text, lines, i, current_lesson, lessons_from_cell,
                   anno, semestre, base_year, weekday, current_date, lesson_dates,
                   lessons, has_zoneinfo, date_str, tz_result, input, tool_vars>>

CorrectTimezoneCall ==
    /\ pc = "timezone"
    /\ tz_result' = Some(get_correct_timezone(date_str))
    /\ pc' = "timezone_done"
    /\ UNCHANGED <<time_str, time_result, cell_text, lines, i, current_lesson,
                   lessons_from_cell, anno, semestre, base_year, weekday,
                   current_date, lesson_dates, lessons, has_zoneinfo, date_str, input, tool_vars>>

(***************************************************************************)
(* Initial states and specifications                                       *)
(***************************************************************************)
IdleTime == time_str = "" /\ time_result = None
IdleCell ==
    /\ cell_text = "" /\ lines = <<>> /\ i = 1
    /\ current_lesson = EmptyLesson /\ lessons_from_cell = <<>>
IdlePdf ==
    /\ anno = 1 /\ semestre = 1 /\ base_year = 2024 /\ weekday = 0
    /\ current_date = None /\ lesson_dates = <<>> /\ lessons = <<>>
    /\ has_zoneinfo = TRUE
IdleDst == date_str = "" /\ tz_result = None
IdleBatch ==
    /\ pdfs = <<>> /\ skip_merge = FALSE /\ pdf_idx = 1 /\ all_generated = <<>>
    /\ sem_queue = <<>> /\ generated_files = <<>> /\ runs = <<>> /\ disk = {}
IdleTables ==
    /\ pages = <<>> /\ page_idx = 1 /\ table_idx = 1 /\ semester_row = 1
    /\ day_queue = <<>>
IdleFix == event_arg = <<>> /\ fixed = <<>>
IdleSteps == events = <<>> /\ corso_studio = "" /\ mapping = <<>> /\ updated = <<>>
IdleGroup == text_arg = "" /\ group_result = <<>>
IdleCourse == course_name = "" /\ course_code = <<>>
IdleMerge == s1_data = <<>> /\ s2_data = <<>> /\ merged_data = <<>>
IdleOthers == IdleFix /\ IdleSteps /\ IdleGroup /\ IdleCourse /\ IdleMerge
IdleTools == IdleBatch /\ IdleTables /\ IdleOthers

\* "\n".join(ls)
RECURSIVE JoinLines(_)
JoinLines(ls) ==
    IF ls = <<>> THEN ""
    ELSE IF Len(ls) = 1 THEN ls[1]
    ELSE ls[1] \o "\n" \o JoinLines(Tail(ls))

\* ---- parse_time -------------------------------------------------------
HourSamples == {0, 3, 9, 10, 19, 20, 23, 24, 29, 99}
MinuteSamples == {0, 9, 59, 60, 99}
\* a number below 10 is written with one digit or two
Widths(n) == IF n < 10 THEN {1, 2} ELSE {2}

OtherTimeLines ==
    {"", "x", "10.00", "10.00-13:00", "123.00-13.00", "10.00-13.599",
     "24.00-25.00 9:00-10:00", "ore 9.00-11.00 circa", "10.00\t-\t13.00",
     "9.5-10.00", "1000-1300", "9:00-25:00 x 8.30-9.30", "  "}

InitTime ==
    /\ pc = "parse_time"
    /\ \/ \E h1 \in HourSamples, m1 \in MinuteSamples, h2 \in HourSamples,
             m2 \in MinuteSamples, sep \in {".", ":"}, dash \in {"-", " - "} :
          \E w1 \in Widths(h1), w2 \in Widths(h2) :
             /\ input = [kind |-> "time", t |-> <<h1, m1, h2, m2>>]
             /\ time_str = Pad(h1, w1) \o sep \o Pad(m1, 2) \o dash
                              \o Pad(h2, w2) \o sep \o Pad(m2, 2)
       \/ /\ time_str \in OtherTimeLines
          /\ input = [kind |-> "text"]
    /\ time_result = None
    /\ IdleCell /\ IdlePdf /\ IdleDst /\ IdleTools

NextTime == ParseTimeCall

SpecTime == InitTime /\ [][NextTime]_vars

\* ---- parse_cell_content -----------------------------------------------
FreeLines ==
    {"9.00-11.00", "14.00-16.00 Storia", "Graphic Design 2", "Gruppo C", "Prof.",
     "Multimedia Lab", "Rossi", "3", "  "}

FreeCells ==
    UNION {[1..n -> FreeLines] : n \in 0..MaxCellLines}

TimeChoices ==
    { <<"10.00-13.00", <<10, 0, 13, 0>> >>, <<"9:30 - 11:00", <<9, 30, 11, 0>> >> }
CourseChoices == {"Graphic Design 2", "Storia dell'Arte"}
NameChoices == {"Crescioli", "Li", "Rossi (sost.)", "De Luca"}
RoomChoices == {"Multimedia Lab", "Aula Magna", "photo studio"}
RoomQualifiers == {"", " (portatili)"}
\* what follows the title of an instructor line, and what is left of it
\* after the clean-up
TitleResidues == { <<"Li", "Li">>, <<"Crescioli", "Crescioli">>, <<"(sost.)", "">> }
FollowingLines == {"Prof. Rossi", "Via Roma", "De Luca", "Multimedia Lab", "Gruppo C"}
\* lines the Group Extractor matches, some of them room or instructor lines
\* as well, and lines it does not match
GroupishLines == {"Gruppo A", "gruppo B", "gr. Y Lab", "Z - Prof. Rossi", "Gruppo D",
                  "Storia"}

InitCell ==
    /\ pc = "cell"
    /\ \/ \E ls \in FreeCells :
             /\ input = [kind |-> "free", lines |-> ls]
             /\ cell_text = JoinLines(ls)
       \/ \E t \in TimeChoices, c \in CourseChoices, l \in GroupLetters,
             x \in NameChoices, r \in RoomChoices, q \in RoomQualifiers :
             /\ input = [kind |-> "five", time |-> t[2], course |-> c, letter |-> l,
                         name |-> x, room |-> r, qualifier |-> q]
             /\ cell_text = JoinLines(<<t[1], c, "Gruppo " \o l, "Prof.ssa " \o x, r \o q>>)
       \/ \E t \in TimeChoices, c \in CourseChoices, x \in TitleResidues,
             n \in FollowingLines :
             /\ input = [kind |-> "profs", time |-> t[2], course |-> c,
                         residue |-> x[2], following |-> n]
             /\ cell_text = JoinLines(<<t[1], c, "Prof. " \o x[1], n>>)
       \/ \E t \in TimeChoices, g \in GroupishLines, h \in GroupishLines,
             c \in CourseChoices :
             /\ input = [kind |-> "groups", time |-> t[2], first |-> g, second |-> h,
                         course |-> c]
             /\ cell_text = JoinLines(<<t[1], g, h, c>>)
    /\ lines = <<>> /\ i = 1
    /\ current_lesson = EmptyLesson /\ lessons_from_cell = <<>>
    /\ IdleTime /\ IdlePdf /\ IdleDst /\ IdleTools

NextCell ==
    \/ CellReturnEmpty \/ CellBegin \/ OpenLesson \/ SkipBeforeTime \/ TakeGroup
    \/ TakeInstructor \/ TakeRoom \/ TakeCourse \/ SkipLine \/ Flush

SpecCell == InitCell /\ [][NextCell]_vars

\* ---- extract_lessons_from_pdf, from one cell --------------------------
PdfCells ==
    {"10.00-13.00\nGraphic Design 2\nGruppo C\nProf.ssa Crescioli\nMultimedia Lab",
     "14.00-18.00\nDesign",
     "13.00-10.00\nDesign",
     "Orario\n9.00-11.00\n3\nStoria\nnote\n23.00-23.30\nCinema",
     "9.00-11.00",
     "9.00-11.00\n14.00-16.00\nDesign"}

Init ==
    /\ pc = "cell"
    /\ cell_text \in PdfCells
    /\ input = [kind |-> "text"]
    /\ lines = <<>> /\ i = 1
    /\ current_lesson = EmptyLesson /\ lessons_from_cell = <<>>
    /\ anno \in {1, 3}
    /\ semestre \in {1, 2}
    /\ base_year \in 2023..(2023 + MaxYearSpan)
    /\ \E d \in 1..Len(DayNames) : weekday = get_weekday_number(DayNames[d])
    /\ has_zoneinfo \in BOOLEAN
    /\ current_date = None /\ lesson_dates = <<>> /\ lessons = <<>>
    /\ IdleTime /\ IdleDst /\ IdleTools

Next ==
    \/ CellReturnEmpty \/ CellBegin \/ OpenLesson \/ SkipBeforeTime \/ TakeGroup
    \/ TakeInstructor \/ TakeRoom \/ TakeCourse \/ SkipLine \/ Flush
    \/ NoLessons \/ ExpandBegin \/ WeekEmit \/ WeekBreak \/ WeekExit

Spec == Init /\ [][Next]_vars

\* lines 412-437 seen from outside: an iteration of the weekly loop ends the
\* loop or moves the cursor on by a week.  WeekEmit, WeekBreak and WeekExit
\* are the steps of this kind, and one of them can be taken in every state
\* of the loop (the cursor is after the end of the window or it is not, and
\* then the date it resolves to is or is not).
WeekStep ==
    /\ pc = "weeks"
    /\ \/ pc' = "done" /\ current_date' = current_date
       \/ pc' = "weeks" /\ current_date' = AddDays(current_date, WeekStride)

\* the interpreter goes on running the loop: an iteration that can be made
\* is made
FairSpec == Spec /\ WF_<<pc, current_date>>(WeekStep)

\* ---- get_correct_timezone ---------------------------------------------
DstYears == 2019..(2019 + MaxDstYears)
DstTimes == { <<0, 0, 0>>, <<23, 59, 59>> }
DstSuffixes == {"", "Z", "+01:00", "+02:00"}

InitDst ==
    /\ pc = "timezone"
    /\ \E y \in DstYears, m \in 1..12, t \in DstTimes, x \in DstSuffixes :
          \E d \in 1..DaysInMonth(y, m) :
             /\ input = [kind |-> "datetime", y |-> y, m |-> m, d |-> d, t |-> t]
             /\ date_str = Pad(y, 4) \o "-" \o Pad(m, 2) \o "-" \o Pad(d, 2) \o "T"
                              \o Pad(t[1], 2) \o ":" \o Pad(t[2], 2) \o ":"
                              \o Pad(t[3], 2) \o x
    /\ tz_result = None
    /\ IdleTime /\ IdleCell /\ IdlePdf /\ IdleTools

NextDst == CorrectTimezoneCall

SpecDst == InitDst /\ [][NextDst]_vars

(***************************************************************************)
(* process_all_pdfs.py: main and process_pdf.  One subprocess run is one   *)
(* step; its return code is the choice of the child process.               *)
(***************************************************************************)
\* a batch holds at most MaxPdfs documents
MaxPdfs == 2

\* line 156, 181: os.path.join(output_dir, f"{course_code.lower()}-{year}-s{sem}.json")
SemesterFile(pdf_info, sem) ==
    "orari/" \o Lower(pdf_info.course_code) \o "-" \o Pad(pdf_info.year, 1)
             \o "-s" \o Pad(sem, 1) \o ".json"

\* line 211
MergedFile(pdf_info) ==
    "orari/" \o Lower(pdf_info.course_code) \o "-" \o Pad(pdf_info.year, 1) \o ".json"

\* lines 155, 180: the semesters process_pdf runs the extraction for
SemestersOf(pdf_info) ==
    IF pdf_info.semester # None THEN <<pdf_info.semester[1]>> ELSE <<1, 2>>

\* the loop stopped by a run that failed
RestAfterRunAbort(queue, returncode) ==
    IF returncode = 0 THEN Tail(queue) ELSE <<>>

\* line 180: for sem in [1, 2] goes on whatever the return code was
RestAfterRun(queue, returncode) == Tail(queue)

\* lines 269-271
NoPdfs ==
    /\ pc = "batch"
    /\ pdfs = <<>>
    /\ pc' = "batch_done"
    /\ UNCHANGED <<extract_vars, input, batch_vars, table_vars, other_vars>>

\* lines 277-278
ProcessLoopBegin ==
    /\ pc = "batch"
    /\ pdfs # <<>>
    /\ all_generated' = <<>>
    /\ pdf_idx' = 1
    /\ pc' = "process_loop"
    /\ UNCHANGED <<extract_vars, input, pdfs, skip_merge, sem_queue, generated_files,
                   runs, disk, table_vars, other_vars>>

\* lines 147-155, 178-180: process_pdf is entered for the next document
ProcessPdfBegin ==
    /\ pc = "process_loop"
    /\ pdf_idx <= Len(pdfs)
    /\ generated_files' = <<>>
    /\ sem_queue' = SemestersOf(pdfs[pdf_idx])
    /\ pc' = "process_pdf"
    /\ UNCHANGED <<extract_vars, input, pdfs, skip_merge, pdf_idx, all_generated,
                   runs, disk, table_vars, other_vars>>

\* lines 156-176, 181-201: one run of the extraction script
RunExtraction ==
    /\ pc = "process_pdf"
    /\ sem_queue # <<>>
    /\ \E returncode \in {0, 1} :
          LET output_file == SemesterFile(pdfs[pdf_idx], Head(sem_queue))
          IN  /\ runs' = Append(runs, [pdf |-> pdf_idx, semestre |-> Head(sem_queue),
                                      output |-> output_file,
                                      returncode |-> returncode])
              /\ generated_files' = IF returncode = 0
                                    THEN Append(generated_files, output_file)
                                    ELSE generated_files
              /\ disk' = IF returncode = 0 THEN disk \cup {output_file} ELSE disk
              /\ sem_queue' = RestAfterRun(sem_queue, returncode)
    /\ UNCHANGED <<pc, extract_vars, input, pdfs, skip_merge, pdf_idx, all_generated,
                   table_vars, other_vars>>

\* lines 203, 279-280: process_pdf returns, main extends its list
ProcessPdfReturn ==
    /\ pc = "process_pdf"
    /\ sem_queue = <<>>
    /\ all_generated' = all_generated \o generated_files
    /\ pdf_idx' = pdf_idx + 1
    /\ pc' = "process_loop"
    /\ UNCHANGED <<extract_vars, input, pdfs, skip_merge, sem_queue, generated_files,
                   runs, disk, table_vars, other_vars>>

\* line 283: --skip-merge
SkipMerge ==
    /\ pc = "process_loop"
    /\ pdf_idx > Len(pdfs)
    /\ skip_merge
    /\ pc' = "batch_done"
    /\ UNCHANGED <<extract_vars, input, batch_vars, table_vars, other_vars>>

\* lines 289-293: the first document of every (course_code, year), in order
FirstOfCourseYear(k) ==
    \A j \in 1..(k - 1) :
        <<pdfs[j].course_code, pdfs[j].year>> # <<pdfs[k].course_code, pdfs[k].year>>

\* lines 209-215: both semester files exist
BothSemestersExist(pdf_info) ==
    SemesterFile(pdf_info, 1) \in disk /\ SemesterFile(pdf_info, 2) \in disk

\* lines 283-298: the semesters of every course and year are merged; a
\* merge is run when both files exist and its return code decides whether
\* the merged file joins the list
MergeSemesters ==
    /\ pc = "process_loop"
    /\ pdf_idx > Len(pdfs)
    /\ ~skip_merge
    /\ \E succeeded \in SUBSET {k \in 1..Len(pdfs) :
                                  FirstOfCourseYear(k) /\ BothSemestersExist(pdfs[k])} :
          LET merged == SelectSeq([k \in 1..Len(pdfs) |-> k],
                                  LAMBDA k : k \in succeeded)
          IN  /\ all_generated' = all_generated
                                    \o [n \in 1..Len(merged) |-> MergedFile(pdfs[merged[n]])]
              /\ disk' = disk \cup {MergedFile(pdfs[k]) : k \in succeeded}
    /\ pc' = "batch_done"
    /\ UNCHANGED <<extract_vars, input, pdfs, skip_merge, pdf_idx, sem_queue,
                   generated_files, runs, table_vars, other_vars>>

\* the documents scan_pdfs can return: lines 128-135
PdfInfos ==
    [course_code : {"DES"}, year : {1, 2}, semester : {None, <<1>>, <<2>>}]

InitBatch ==
    /\ pc = "batch"
    /\ pdfs \in UNION {[1..n -> PdfInfos] : n \in 0..MaxPdfs}
    /\ skip_merge \in BOOLEAN
    /\ disk \in {{}, {"orari/des-1-s1.json"}}
    /\ pdf_idx = 1 /\ all_generated = <<>> /\ sem_queue = <<>>
    /\ generated_files = <<>> /\ runs = <<>>
    /\ input = [kind |-> "batch"]
    /\ IdleTime /\ IdleCell /\ IdlePdf /\ IdleDst /\ IdleTables /\ IdleOthers

NextBatch ==
    \/ NoPdfs \/ ProcessLoopBegin \/ ProcessPdfBegin \/ RunExtraction
    \/ ProcessPdfReturn \/ SkipMerge \/ MergeSemesters

SpecBatch == InitBatch /\ [][NextBatch]_vars

\* the driver is a sequential script: a step that can be taken is taken
FairSpecBatch == SpecBatch /\ WF_vars(NextBatch)

(***************************************************************************)
(* extract_lessons_from_pdf: pages, tables and cells (lines 302-446).  A   *)
(* table is a sequence of rows, a row a sequence of cells, an empty cell   *)
(* (None or '') the empty string.  Rows and columns are counted from 1.    *)
(* page.extract_tables() is a call of the PDF library: it returns the      *)
(* tables of the page or raises.                                           *)
(***************************************************************************)
\* a document holds at most MaxPages pages
MaxPages == 2

\* s.replace(old, new): every occurrence, left to right, without overlap
RECURSIVE Replace(_, _, _, _)
Replace(s, old, new, pos) ==
    IF pos > Len(s) THEN ""
    ELSE IF StartsAt(s, pos, old) THEN new \o Replace(s, old, new, pos + Len(old))
    ELSE Char(s, pos) \o Replace(s, old, new, pos + 1)

\* line 335: row and any(day in str(row).upper() for day in day_names); the
\* text of a row holds a day name exactly when one of its cells does
RowNamesDay(row) ==
    \E c \in 1..Len(row), d \in 1..Len(DayNames) : Contains(Upper(row[c]), DayNames[d])

\* lines 333-337: the first row that names a day, None without one
HeaderRowOf(table) ==
    LET found == {r \in 1..Len(table) : RowNamesDay(table[r])}
    IN  IF found = {} THEN None ELSE Some(Min(found))

\* line 351: day_columns[day_name] = col_idx keeps the place of a key that is
\* already there and appends a new key
AssignColumn(cols, day_name, col_idx) ==
    IF \E k \in 1..Len(cols) : cols[k][1] = day_name
    THEN [k \in 1..Len(cols) |->
             IF cols[k][1] = day_name THEN <<day_name, col_idx>> ELSE cols[k]]
    ELSE Append(cols, <<day_name, col_idx>>)

\* lines 345-352: every non-empty header cell gives its column to the first
\* day of day_names it holds; the value is the items of day_columns
RECURSIVE DayColumns(_, _, _)
DayColumns(header, col_idx, cols) ==
    IF col_idx > Len(header) THEN cols
    ELSE LET held == {d \in 1..Len(DayNames) :
                         Contains(Upper(header[col_idx]), DayNames[d])}
         IN  IF header[col_idx] = "" \/ held = {}
             THEN DayColumns(header, col_idx + 1, cols)
             ELSE DayColumns(header, col_idx + 1,
                             AssignColumn(cols, DayNames[Min(held)], col_idx))

\* lines 377, 380: the markers of a semester.  In the source file the
\* character between the digit and the blank is the pair U+00AC U+221E, not
\* the degree sign; U+221E is written ¤ here, a character no cell holds
SemesterMarkers(sem) ==
    IF sem = 1 THEN {"1¬¤ SEM", "1 SEM", "PRIMO SEM", "1¬¤ SEM."}
    ELSE IF sem = 2 THEN {"2¬¤ SEM", "2 SEM", "SECONDO SEM", "2¬¤ SEM."}
    ELSE {}

\* lines 366-380: the first cell of the row holds a marker of the semester
RowMarksSemester(row, sem) ==
    /\ row # <<>>
    /\ ContainsAny(Replace(Replace(Upper(row[1]), "\n", " ", 1), "  ", " ", 1),
                   SemesterMarkers(sem))

\* lines 360-382: range(header_row + 1, min(header_row + 10, len(table)))
SemesterRowOf(table, header_row, sem) ==
    LET found == {r \in (header_row + 1)..Min({header_row + 9, Len(table)}) :
                     RowMarksSemester(table[r], sem)}
    IN  IF found = {} THEN None ELSE Some(Min(found))

\* lines 328-386: the table is read (it has 2 rows, a header and a row of
\* the semester)
Recognised(table) ==
    /\ Len(table) >= 2
    /\ HeaderRowOf(table) # None
    /\ SemesterRowOf(table, HeaderRowOf(table)[1], semestre) # None

TableFrame ==
    UNCHANGED <<time_str, time_result, anno, semestre, base_year, has_zoneinfo,
                date_str, tz_result, input, batch_vars, pages, other_vars>>

\* lines 318-319, 441-446: extract_tables raises, the except clause of the
\* function is reached and the events collected so far are returned
PageRaises ==
    /\ pc = "pages"
    /\ page_idx <= Len(pages)
    /\ pages[page_idx].raises
    /\ pc' = "returned"
    /\ UNCHANGED <<cell_text, lines, i, current_lesson, lessons_from_cell, weekday,
                   current_date, lesson_dates, lessons, page_idx, table_idx,
                   semester_row, day_queue>>
    /\ TableFrame

\* lines 321-322
PageWithoutTables ==
    /\ pc = "pages"
    /\ page_idx <= Len(pages)
    /\ ~pages[page_idx].raises
    /\ pages[page_idx].tables = <<>>
    /\ page_idx' = page_idx + 1
    /\ UNCHANGED <<pc, cell_text, lines, i, current_lesson, lessons_from_cell, weekday,
                   current_date, lesson_dates, lessons, table_idx, semester_row,
                   day_queue>>
    /\ TableFrame

\* line 326
PageTables ==
    /\ pc = "pages"
    /\ page_idx <= Len(pages)
    /\ ~pages[page_idx].raises
    /\ pages[page_idx].tables # <<>>
    /\ table_idx' = 1
    /\ pc' = "tables"
    /\ UNCHANGED <<cell_text, lines, i, current_lesson, lessons_from_cell, weekday,
                   current_date, lesson_dates, lessons, page_idx, semester_row,
                   day_queue>>
    /\ TableFrame

\* lines 328-330, 339-341, 384-386: a table that is not recognised is skipped
TableSkipped ==
    /\ pc = "tables"
    /\ table_idx <= Len(pages[page_idx].tables)
    /\ ~Recognised(pages[page_idx].tables[table_idx])
    /\ table_idx' = table_idx + 1
    /\ UNCHANGED <<pc, cell_text, lines, i, current_lesson, lessons_from_cell, weekday,
                   current_date, lesson_dates, lessons, page_idx, semester_row,
                   day_queue>>
    /\ TableFrame

\* lines 344-392: the header and the row of the semester are found
TableLocated ==
    /\ pc = "tables"
    /\ table_idx <= Len(pages[page_idx].tables)
    /\ Recognised(pages[page_idx].tables[table_idx])
    /\ LET table == pages[page_idx].tables[table_idx]
       IN  /\ day_queue' = DayColumns(table[HeaderRowOf(table)[1]], 1, <<>>)
           /\ semester_row' = SemesterRowOf(table, HeaderRowOf(table)[1], semestre)[1]
    /\ pc' = "cells"
    /\ UNCHANGED <<cell_text, lines, i, current_lesson, lessons_from_cell, weekday,
                   current_date, lesson_dates, lessons, page_idx, table_idx>>
    /\ TableFrame

\* the cell of the semester row in the column of the day in hand, '' when
\* the row is too short (lines 397-400)
CellInHand ==
    LET row == pages[page_idx].tables[table_idx][semester_row]
        col_idx == Head(day_queue)[2]
    IN  IF col_idx > Len(row) THEN "" ELSE row[col_idx]

\* lines 397-402: the row has no such column, or the cell is blank
CellSkipped ==
    /\ pc = "cells"
    /\ day_queue # <<>>
    /\ Strip(CellInHand) = ""
    /\ day_queue' = Tail(day_queue)
    /\ UNCHANGED <<pc, cell_text, lines, i, current_lesson, lessons_from_cell, weekday,
                   current_date, lesson_dates, lessons, page_idx, table_idx,
                   semester_row>>
    /\ TableFrame

\* lines 393-405: parse_cell_content is called with the cell
CellTaken ==
    /\ pc = "cells"
    /\ day_queue # <<>>
    /\ Strip(CellInHand) # ""
    /\ weekday' = get_weekday_number(Head(day_queue)[1])
    /\ cell_text' = CellInHand
    /\ day_queue' = Tail(day_queue)
    /\ pc' = "cell"
    /\ UNCHANGED <<lines, i, current_lesson, lessons_from_cell, current_date,
                   lesson_dates, lessons, page_idx, table_idx, semester_row>>
    /\ TableFrame

\* line 392: the next day column, after the weeks of the cell (or after
\* line 408)
CellDone ==
    /\ pc = "done"
    /\ pc' = "cells"
    /\ UNCHANGED <<cell_text, lines, i, current_lesson, lessons_from_cell, weekday,
                   current_date, lesson_dates, lessons, page_idx, table_idx,
                   semester_row, day_queue>>
    /\ TableFrame

\* line 326: the next table
TableDone ==
    /\ pc = "cells"
    /\ day_queue = <<>>
    /\ table_idx' = table_idx + 1
    /\ pc' = "tables"
    /\ UNCHANGED <<cell_text, lines, i, current_lesson, lessons_from_cell, weekday,
                   current_date, lesson_dates, lessons, page_idx, semester_row,
                   day_queue>>
    /\ TableFrame

\* line 318: the next page
PageDone ==
    /\ pc = "tables"
    /\ table_idx > Len(pages[page_idx].tables)
    /\ page_idx' = page_idx + 1
    /\ pc' = "pages"
    /\ UNCHANGED <<cell_text, lines, i, current_lesson, lessons_from_cell, weekday,
                   current_date, lesson_dates, lessons, table_idx, semester_row,
                   day_queue>>
    /\ TableFrame

\* line 446
PdfReturn ==
    /\ pc = "pages"
    /\ page_idx > Len(pages)
    /\ pc' = "returned"
    /\ UNCHANGED <<cell_text, lines, i, current_lesson, lessons_from_cell, weekday,
                   current_date, lesson_dates, lessons, page_idx, table_idx,
                   semester_row, day_queue>>
    /\ TableFrame

\* a timetable of the course: the days in the header, a row for each
\* semester
Timetable(course) ==
    << <<"", "Orario settimanale">>,
       <<"", "LUNEDI", "Martedi">>,
       <<"1 SEM.", "9.00-11.00\n" \o course, "Orario\n14.00-16.00\n3\n" \o course
                                              \o "\nGruppo C\nProf.ssa Crescioli\nMultimedia Lab">>,
       <<"2\nsem", "", "9.00-11.00\n" \o course>>,
       <<"", "9.00-11.00">> >>

\* what a page gives: extract_tables raises, or these tables; courses is
\* the set of the courses its tables hold lessons of, in each semester
PageChoices ==
    { [raises |-> TRUE, tables |-> <<>>, courses |-> <<{}, {}>>],
      [raises |-> FALSE, tables |-> <<>>, courses |-> <<{}, {}>>],
      [raises |-> FALSE, tables |-> <<Timetable("Design")>>,
       courses |-> <<{"Design"}, {"Design"}>>],
      [raises |-> FALSE,
       tables |-> << << <<"LUNEDI">> >>,
                     << <<"LUNEDI">>, <<"1° SEM.", "9.00-11.00\nRegia">> >>,
                     << <<"Docente", "Aula">>, <<"1 SEM", "9.00-11.00\nPittura">> >>,
                     Timetable("Storia"),
                     << <<"1 SEM", "Lunedi", "Martedi">>, <<"primo sem", "9.00-11.00\nCinema", "x">>,
                        <<"2 SEM">> >>,
                     << <<"", "LUNEDI", "Lunedi / Martedi", "MARTEDI">>,
                        <<"1 SEM", "9.00-11.00\nPittura", "9.00-11.00\nScultura",
                          "9.00-11.00\nRegia">> >>,
                     << <<"", "LUNEDI">>, <<"nota">>, <<"nota">>, <<"nota">>, <<"nota">>,
                        <<"nota">>, <<"nota">>, <<"nota">>, <<"nota">>,
                        <<"2 SEM", "9.00-11.00\nGrafica">>,
                        <<"1 SEM", "9.00-11.00\nDisegno">> >> >>,
       courses |-> <<{"Storia", "Cinema", "Scultura", "Regia"}, {"Storia", "Grafica"}>>] }

InitPdf ==
    /\ pc = "pages"
    /\ pages \in UNION {[1..n -> PageChoices] : n \in 0..MaxPages}
    /\ page_idx = 1 /\ table_idx = 1 /\ semester_row = 1 /\ day_queue = <<>>
    /\ anno = 1 /\ semestre \in {1, 2} /\ base_year = 2024 /\ weekday = 0
    /\ has_zoneinfo = TRUE
    /\ current_date = None /\ lesson_dates = <<>> /\ lessons = <<>>
    /\ input = [kind |-> "pdf"]
    /\ IdleTime /\ IdleCell /\ IdleDst /\ IdleBatch /\ IdleOthers

NextPdf ==
    \/ PageRaises \/ PageWithoutTables \/ PageTables \/ TableSkipped \/ TableLocated
    \/ CellSkipped \/ CellTaken \/ CellDone \/ TableDone \/ PageDone \/ PdfReturn
    \/ CellReturnEmpty \/ CellBegin \/ OpenLesson \/ SkipBeforeTime \/ TakeGroup
    \/ TakeInstructor \/ TakeRoom \/ TakeCourse \/ SkipLine \/ Flush
    \/ NoLessons \/ ExpandBegin \/ WeekEmit \/ WeekBreak \/ WeekExit

SpecPdf == InitPdf /\ [][NextPdf]_vars

(***************************************************************************)
(* fix_timezone.py and fix_hour_offset.py: the repairs of the events of a  *)
(* JSON file.  An event is a record with the fields corso, start and end;  *)
(* '' stands for a start or end that is missing or empty.                  *)
(***************************************************************************)
\* fix_timezone.py lines 82-86 and 89-93
FixTimezoneText(s) ==
    IF s # "" /\ Contains(s, "+02:00")
    THEN Replace(s, "+02:00", get_correct_timezone(s), 1)
    ELSE s

\* fix_timezone.py lines 77-95
fix_timezone_in_event(ev) ==
    [ev EXCEPT !.start = FixTimezoneText(@), !.end = FixTimezoneText(@)]

\* the UTC offset as isoformat() writes it
FormatOffset(minutes) ==
    LET m == IF minutes < 0 THEN 0 - minutes ELSE minutes
    IN  (IF minutes < 0 THEN "-" ELSE "+") \o Pad(m \div 60, 2) \o ":" \o Pad(m % 60, 2)

\* dt.isoformat() of a parsed timestamp
isoformat(parsed) ==
    FormatNaive(parsed.dt)
        \o (IF parsed.tz = None THEN "" ELSE FormatOffset(parsed.tz[1]))

\* fix_hour_offset.py lines 25-30: the text handed to fromisoformat
HourParseText(s) ==
    IF Contains(s, "+") THEN s
    ELSE IF Contains(s, "Z") THEN Replace(s, "Z", "+00:00", 1)
    ELSE s

\* the text left as it is
KeepHour(s) == s

\* fix_hour_offset.py lines 17-38; datetime.min - timedelta(hours=1) raises
\* OverflowError, which the except clause takes like a ValueError
subtract_one_hour(s) ==
    LET parsed == fromisoformat(HourParseText(s))
    IN  IF parsed = None THEN s
        ELSE IF AddHours(parsed[1].dt, -1).date < 1 THEN s
        ELSE isoformat([parsed[1] EXCEPT !.dt = AddHours(@, -1)])

\* fix_hour_offset.py lines 40-52
fix_hour_in_event(ev) ==
    [ev EXCEPT !.start = IF @ # "" THEN subtract_one_hour(@) ELSE @,
               !.end = IF @ # "" THEN subtract_one_hour(@) ELSE @]

\* fix_timezone_in_file line 121
FixTimezoneCall ==
    /\ pc = "fix"
    /\ fixed' = Some(fix_timezone_in_event(event_arg))
    /\ pc' = "fixed_timezone"
    /\ UNCHANGED <<extract_vars, input, batch_vars, table_vars, event_arg, step_vars,
                   group_vars, course_vars, merge_vars>>

\* fix_hour_in_file line 73
FixHourCall ==
    /\ pc = "fix"
    /\ fixed' = Some(fix_hour_in_event(event_arg))
    /\ pc' = "fixed_hour"
    /\ UNCHANGED <<extract_vars, input, batch_vars, table_vars, event_arg, step_vars,
                   group_vars, course_vars, merge_vars>>

\* timestamps as the extraction writes them and as a hand-edited file may
\* hold them, and texts that are no timestamps
TimestampTexts ==
    { "2024-11-07T09:00:00+02:00", "2024-07-07T09:00:00+02:00",
      "2024-11-07T00:30:00+01:00", "2024-10-07T15:00:00+01:00",
      "2024-01-01T00:00:00+02:00",
      "2024-03-31T02:00:00+02:00", "2024-10-27T03:00:00+02:00",
      "2024-11-07 09:00:00+02:00", "2024-11-07T09:00:00Z", "2024-11-07T09:00:00" }
OtherTexts ==
    { "", "domani", "x+02:00", "2024-13-01T09:00:00+02:00",
      "2024-10-07T25:00:00+02:00", "2024-11-07T09:00:00+02:00 (aula)" }

InitFix ==
    /\ pc = "fix"
    /\ event_arg \in [corso : {"Design"}, start : TimestampTexts \cup OtherTexts,
                      end : TimestampTexts \cup OtherTexts]
    /\ fixed = <<>>
    /\ input = [kind |-> "event"]
    /\ IdleTime /\ IdleCell /\ IdlePdf /\ IdleDst /\ IdleBatch /\ IdleTables
    /\ IdleSteps /\ IdleGroup /\ IdleCourse /\ IdleMerge

NextFix == FixTimezoneCall \/ FixHourCall

SpecFix == InitFix /\ [][NextFix]_vars

\* the repairs applied to an event of the extraction: Mondays, Saturdays and
\* a Tuesday of both windows, around the last Sundays of October and March
\* and at the end of the year, with time ranges of the morning, of the
\* afternoon and around midnight
BuiltDates ==
    { Datetime(2024, 10, 7), Datetime(2024, 10, 26), Datetime(2024, 10, 28),
      Datetime(2024, 12, 31), Datetime(2025, 1, 31), Datetime(2025, 3, 29),
      Datetime(2025, 3, 31), Datetime(2025, 5, 31) }
BuiltTimes ==
    { <<9, 0, 11, 0>>, <<14, 0, 18, 0>>, <<0, 0, 0, 30>>, <<1, 30, 2, 30>>,
      <<22, 30, 23, 0>>, <<23, 0, 23, 59>> }

InitBuilt ==
    /\ pc = "fix"
    /\ has_zoneinfo \in BOOLEAN
    /\ \E date \in BuiltDates, t \in BuiltTimes :
           /\ input = [kind |-> "built", date |-> date, time_range |-> t]
           /\ event_arg = create_lesson_event(Some("Design"), 1, Some("A"), None, None,
                                              date, <<t[1], t[2]>>, <<t[3], t[4]>>,
                                              None, has_zoneinfo)
    /\ fixed = <<>>
    /\ IdleTime /\ IdleCell /\ IdleDst
    /\ anno = 1 /\ semestre = 1 /\ base_year = 2024 /\ weekday = 0
    /\ current_date = None /\ lesson_dates = <<>> /\ lessons = <<>>
    /\ IdleBatch /\ IdleTables /\ IdleSteps /\ IdleGroup /\ IdleCourse /\ IdleMerge

SpecBuilt == InitBuilt /\ [][NextFix]_vars

(***************************************************************************)
(* The downstream steps on the events of a JSON file: enrich_with_logos.py, *)
(* rename_shared_courses.py, add_corso_studio.py.  An event is the record  *)
(* create_lesson_event makes; a dict of Python gets a new key by           *)
(* WithField.  mapping is a function from normalised names to identifiers. *)
(***************************************************************************)
\* a file holds at most MaxEvents events
MaxEvents == 2

\* re.sub(r'[^\w\s]', '', s)
RECURSIVE RemoveSpecial(_, _)
RemoveSpecial(s, k) ==
    IF k > Len(s) THEN ""
    ELSE (IF IsWordChar(Char(s, k)) \/ IsSpace(Char(s, k)) THEN Char(s, k) ELSE "")
         \o RemoveSpecial(s, k + 1)

\* enrich_with_logos.py lines 24-31
normalize_course_name(name) ==
    IF name = "" THEN ""
    ELSE Strip(CollapseSpaces(RemoveSpecial(Lower(name), 1), 1))

\* re.sub(r'\s+\d+$', '', s): the leftmost run of blanks that only digits
\* follow up to the end
SubTrailingNumber(s) ==
    LET starts == {p \in 1..Len(s) :
                      /\ IsSpace(Char(s, p))
                      /\ SkipSpaces(s, p) <= Len(s)
                      /\ \A q \in SkipSpaces(s, p)..Len(s) : IsDigit(Char(s, q))}
    IN  IF starts = {} THEN s ELSE SubSeq(s, 1, Min(starts) - 1)

\* re.search(r'\b([123])\b', corso): the first 1, 2 or 3 that stands alone
YearInName(corso) ==
    LET found == {p \in 1..Len(corso) :
                     /\ Char(corso, p) \in {"1", "2", "3"}
                     /\ (p = 1 \/ ~IsWordChar(Char(corso, p - 1)))
                     /\ (p = Len(corso) \/ ~IsWordChar(Char(corso, p + 1)))}
    IN  IF found = {} THEN None ELSE Some(Char(corso, Min(found)))

\* mapping.get(key), None also for an identifier that is empty ("if not oid")
MappingGet(map, key) ==
    IF key \in DOMAIN map /\ map[key] # "" THEN Some(map[key]) ELSE None

\* enrich_with_logos.py lines 118-134: the exact name, the name without its
\* trailing number, that name with the year found in the course name
LookupOid(map, corso) ==
    LET normalized == normalize_course_name(corso)
        base == SubTrailingNumber(normalized)
    IN  FirstSome(<< MappingGet(map, normalized),
                     MappingGet(map, base),
                     IF YearInName(corso) = None THEN None
                     ELSE MappingGet(map, base \o " " \o YearInName(corso)[1]) >>)

\* enrich_with_logos.py lines 110-145, one event; every event of the
\* extraction has the key oidCorso
EnrichEvent(ev, map) ==
    IF ~Truthy(ev.corso) THEN ev
    ELSE IF LookupOid(map, ev.corso[1]) # None
    THEN [ev EXCEPT !.oidCorso = LookupOid(map, ev.corso[1])]
    ELSE ev

\* enrich_with_logos.py lines 104-158
enrich_events_with_oid(evs, map) == [k \in 1..Len(evs) |-> EnrichEvent(evs[k], map)]

\* rename_shared_courses.py lines 18-44
SHARED_COURSES_MAP(study) ==
    IF study = "DESIGN" THEN <<"Informatica di Base", "Informatica di Base Design">>
    ELSE IF study = "FOTOGRAFIA"
    THEN <<"Informatica di Base", "Informatica di Base Fotografia">>
    ELSE IF study = "PITTURA" THEN <<"Informatica di Base", "Informatica di Base Pittura">>
    ELSE IF study = "REGIA" THEN <<"Informatica di Base", "Informatica di Base Regia">>
    ELSE <<>>

\* every event gets the new name
RenameEventAlways(ev, renamed_map) == [ev EXCEPT !.corso = Some(renamed_map[2])]

\* rename_shared_courses.py lines 76-86, one event
RenameEvent(ev, renamed_map) ==
    IF ev.corso = Some(renamed_map[1]) THEN [ev EXCEPT !.corso = Some(renamed_map[2])]
    ELSE ev

\* rename_shared_courses.py lines 66-88: the first component of the result
rename_shared_courses(evs, study) ==
    IF SHARED_COURSES_MAP(study) = <<>> THEN evs
    ELSE [k \in 1..Len(evs) |-> RenameEvent(evs[k], SHARED_COURSES_MAP(study))]

\* new_event[key] = value
WithField(ev, key, value) ==
    [f \in DOMAIN ev \cup {key} |-> IF f = key THEN value ELSE ev[f]]

\* add_corso_studio.py lines 40-48
add_corso_studio_to_events(evs, study) ==
    [k \in 1..Len(evs) |-> WithField(evs[k], "corsoStudio", study)]

StepFrame ==
    UNCHANGED <<extract_vars, input, batch_vars, table_vars, fix_vars, group_vars,
                course_vars, merge_vars, corso_studio, mapping>>

\* enrich_with_logos.py line 205
EnrichCall ==
    /\ pc = "steps"
    /\ updated' = Some(enrich_events_with_oid(events, mapping))
    /\ pc' = "enriched"
    /\ UNCHANGED events
    /\ StepFrame

\* rename_shared_courses.py line 104
RenameCall ==
    /\ pc = "steps"
    /\ updated' = Some(rename_shared_courses(events, corso_studio))
    /\ pc' = "renamed"
    /\ UNCHANGED events
    /\ StepFrame

\* add_corso_studio.py line 71
AddCorsoStudioCall ==
    /\ pc = "steps"
    /\ updated' = Some(add_corso_studio_to_events(events, corso_studio))
    /\ pc' = "studio_added"
    /\ UNCHANGED events
    /\ StepFrame

\* the step writes the events back to the file, where the next step reads
\* them
WriteBack ==
    /\ pc \in {"enriched", "renamed", "studio_added"}
    /\ events' = updated[1]
    /\ updated' = <<>>
    /\ pc' = "steps"
    /\ StepFrame

\* the events of a file, as create_lesson_event makes them
CourseSamples == {None, Some("Informatica di Base"), Some("Graphic Design 2"),
                  Some("Storia dell'Arte")}
EventSamples ==
    { create_lesson_event(c, 1, None, None, None, Datetime(2024, 10, 7),
                          <<9, 0>>, <<11, 0>>, None, TRUE) : c \in CourseSamples }
MappingSamples ==
    { <<>>,
      [n \in {"graphic design", "storia dellarte 1", "informatica di base design"} |->
          "oid-" \o n] }

InitSteps ==
    /\ pc = "steps"
    /\ events \in UNION {[1..n -> EventSamples] : n \in 1..MaxEvents}
    /\ corso_studio \in {"DESIGN", "CINEMA"}
    /\ mapping \in MappingSamples
    /\ updated = <<>>
    /\ input = [kind |-> "file"]
    /\ IdleTime /\ IdleCell /\ IdlePdf /\ IdleDst /\ IdleBatch /\ IdleTables
    /\ IdleFix /\ IdleGroup /\ IdleCourse /\ IdleMerge

NextSteps == EnrichCall \/ RenameCall \/ AddCorsoStudioCall \/ WriteBack

SpecSteps == InitSteps /\ [][NextSteps]_vars

(***************************************************************************)
(* extract_group_from_text on the lines of a cell (lines 174, 219, 252)    *)
(***************************************************************************)
\* line 174: gruppo = extract_group_from_text(line)
GroupCall ==
    /\ pc = "group"
    /\ group_result' = Some(extract_group_from_text(text_arg))
    /\ pc' = "group_done"
    /\ UNCHANGED <<extract_vars, input, batch_vars, table_vars, fix_vars, step_vars,
                   course_vars, merge_vars, text_arg>>

\* lines that name a group in one of the four forms, or in two of them, and
\* lines that name none
GroupHeads ==
    {"Gruppo D", "Gruppo A", "gruppoB", "gr. E", "Gr.  C", "X gruppo", "Y Gruppo",
     "D -", "Z:", "Storia", "gruppo a", ""}
GroupTails == {"", " B gruppo", " gr. C", " Gruppo Z", " Gruppo Q", " e Design"}

\* the three keyword forms for a letter, the keyword in three letter cases
KeywordForms(letter) ==
    {k \o " " \o letter : k \in {"Gruppo", "GRUPPO", "gruppo", "Gr.", "GR.", "gr."}}
        \cup {letter \o " " \o k : k \in {"Gruppo", "GRUPPO", "gruppo"}}

InitGroup ==
    /\ pc = "group"
    /\ text_arg \in {h \o t : h \in GroupHeads, t \in GroupTails}
                         \cup UNION {KeywordForms(l) : l \in GroupLetters}
    /\ group_result = <<>>
    /\ input = [kind |-> "line"]
    /\ IdleTime /\ IdleCell /\ IdlePdf /\ IdleDst /\ IdleBatch /\ IdleTables
    /\ IdleFix /\ IdleSteps /\ IdleCourse /\ IdleMerge

NextGroup == GroupCall

SpecGroup == InitGroup /\ [][NextGroup]_vars

(***************************************************************************)
(* process_all_pdfs.py: the code of a course folder (lines 17-29, 47-53)   *)
(***************************************************************************)
\* lines 18-29: the keys and their codes, in the order of the dict
COURSE_MAP ==
    << <<"DESIGN", "DES">>, <<"CINEMA", "CINEMA">>, <<"INTERIOR DESIGN", "INT">>,
       <<"FASHION", "FD">>, <<"GD", "GD">>, <<"GRAPHIC DESIGN", "GD">>,
       <<"FOTOGRAFIA", "FOTO">>, <<"PITTURA", "PIT">>, <<"REGIA", "REGIA">>,
       <<"REGIA E VIDEOMAKING", "REGIA">> >>

\* lines 47-53: the code of the first key, in the order of the dict, that is
\* part of the name in capitals; None when no key is
find_course_code(name) ==
    LET course_upper == Upper(name)
        ks == {k \in 1..Len(COURSE_MAP) : Contains(course_upper, COURSE_MAP[k][1])}
    IN  IF ks = {} THEN None ELSE Some(COURSE_MAP[Min(ks)][2])

\* scan_pdfs line 111: course_code = find_course_code(course_name)
FindCourseCall ==
    /\ pc = "course"
    /\ course_code' = Some(find_course_code(course_name))
    /\ pc' = "course_done"
    /\ UNCHANGED <<extract_vars, input, batch_vars, table_vars, fix_vars, step_vars,
                   group_vars, merge_vars, course_name>>

\* a folder name as it may be written: in capitals, in small letters, with
\* a capital first letter
Spellings(name) ==
    {Upper(name), Lower(name), Char(name, 1) \o Lower(SubSeq(name, 2, Len(name)))}

\* the folders of the source directory: the keys in the three spellings,
\* alone or with a year or a site around them, and folders of no course
FolderNames ==
    {p \o s \o q : p \in {"", "LABA "},
                    s \in UNION {Spellings(COURSE_MAP[k][1]) : k \in 1..Len(COURSE_MAP)},
                    q \in {"", " 2025"}}
        \cup {"", "Scultura", "2025 2026", "DES", "Grafica"}

InitCourse ==
    /\ pc = "course"
    /\ course_name \in FolderNames
    /\ course_code = <<>>
    /\ input = [kind |-> "folder"]
    /\ IdleTime /\ IdleCell /\ IdlePdf /\ IdleDst /\ IdleBatch /\ IdleTables
    /\ IdleFix /\ IdleSteps /\ IdleGroup /\ IdleMerge

NextCourse == FindCourseCall

SpecCourse == InitCourse /\ [][NextCourse]_vars

(***************************************************************************)
(* merge_semesters.py: the events of two semester files in one list.  An   *)
(* event is a record with the fields corso and start; '' stands for a      *)
(* start that is missing, as x.get('start', '') reads it.                  *)
(***************************************************************************)
\* the characters of a timestamp, in the order of their code points
CodePoints == " +-0123456789:TZ"
CodeRank(c) == CHOOSE k \in 1..Len(CodePoints) : Char(CodePoints, k) = c

\* a < b for two str of Python: the first character that differs decides,
\* a proper prefix is smaller
RECURSIVE StrLess(_, _)
StrLess(a, b) ==
    IF b = "" THEN FALSE
    ELSE IF a = "" THEN TRUE
    ELSE IF Char(a, 1) = Char(b, 1)
         THEN StrLess(SubSeq(a, 2, Len(a)), SubSeq(b, 2, Len(b)))
         ELSE CodeRank(Char(a, 1)) < CodeRank(Char(b, 1))

\* line 30: key=lambda x: x.get('start', '')
SortKey(x) == x.start

\* an element put into a sorted list behind the elements that are not
\* greater than it
InsertBehind(sorted, x) ==
    LET n == Cardinality({k \in 1..Len(sorted) : ~StrLess(SortKey(x), SortKey(sorted[k]))})
    IN  SubSeq(sorted, 1, n) \o <<x>> \o SubSeq(sorted, n + 1, Len(sorted))

\* the list left as it is
Unsorted(evs) == evs

\* line 30: list.sort, which is stable
RECURSIVE StableSort(_)
StableSort(evs) ==
    IF evs = <<>> THEN <<>>
    ELSE InsertBehind(StableSort(SubSeq(evs, 1, Len(evs) - 1)), evs[Len(evs)])

\* lines 18-33: both files are loaded, joined, sorted and saved
MergeCall ==
    /\ pc = "merge"
    /\ merged_data' = Some(StableSort(s1_data \o s2_data))
    /\ pc' = "merge_done"
    /\ UNCHANGED <<extract_vars, input, batch_vars, table_vars, fix_vars, step_vars,
                   group_vars, course_vars, s1_data, s2_data>>

\* events of the two semesters; two courses may start at the same time, and
\* an event of a file edited by hand may have no start
MergeSamples ==
    [corso : {"Design", "Regia"},
     start : {"2024-10-07T10:00:00+02:00", "2025-02-03T10:00:00+01:00", ""}]

InitMerge ==
    /\ pc = "merge"
    /\ s1_data \in UNION {[1..n -> MergeSamples] : n \in 0..MaxEvents}
    /\ s2_data \in UNION {[1..n -> MergeSamples] : n \in 0..MaxEvents}
    /\ merged_data = <<>>
    /\ input = [kind |-> "semesters"]
    /\ IdleTime /\ IdleCell /\ IdlePdf /\ IdleDst /\ IdleBatch /\ IdleTables
    /\ IdleFix /\ IdleSteps /\ IdleGroup /\ IdleCourse

NextMerge == MergeCall

SpecMerge == InitMerge /\ [][NextMerge]_vars

(***************************************************************************)
(* Properties                                                              *)
(***************************************************************************)
\* the four components are an hour and a minute of the day, twice
InDayRange(t) ==
    /\ t[1] \in 0..23 /\ t[2] \in 0..59
    /\ t[3] \in 0..23 /\ t[4] \in 0..59

\* C1: every lesson template returned by parse_cell_content has a time range
\* and a non-empty course name (an open lesson without a course name is
\* dropped when the next time range opens and when the cell ends).
C1_TemplatesComplete ==
    \A k \in 1..Len(lessons_from_cell) :
        /\ lessons_from_cell[k].time_range # None
        /\ lessons_from_cell[k].corso # None
        /\ lessons_from_cell[k].corso # <<"">>

\* C2: for a line H.MM-H.MM or H:MM-H:MM with hours in 0..23 and minutes in
\* 0..59, parse_time returns exactly the four components written in the line.
C2_ExactComponents ==
    (pc = "parse_time_done" /\ input.kind = "time" /\ InDayRange(input.t))
        => time_result = Some(input.t)

C2_Witness ==
    /\ pc = "parse_time_done"
    /\ input.kind = "time"
    /\ input.t = <<23, 59, 0, 9>>
    /\ time_str = "23:59 - 0:09"
    /\ time_result = Some(<<23, 59, 0, 9>>)

\* C3: parse_time returns for every line (it never raises); what it returns
\* is no match or a tuple with hours in 0..23 and minutes in 0..59; a time
\* range written with an hour >= 24 or a minute >= 60 gives no match.
C3_OutOfRangeNoMatch ==
    pc = "parse_time_done" =>
        /\ Len(time_result) = 1
        /\ time_result[1] = None \/ (Len(time_result[1]) = 4 /\ InDayRange(time_result[1]))
        /\ (input.kind = "time" /\ ~InDayRange(input.t)) => time_result[1] = None

C3_Witness ==
    /\ pc = "parse_time_done"
    /\ input.kind = "time"
    /\ input.t = <<24, 0, 10, 60>>
    /\ time_result = Some(None)

\* a single word of letters, longer than 2 characters
PlainName(x) ==
    Len(x) > 2 /\ \A k \in 1..Len(x) : Char(x, k) \in (UpperSet \cup LowerSet)

\* C4, as claimed: a cell of a time-range line, a course line, 'Gruppo L',
\* 'Prof.ssa X' and a room line yields exactly one template, with the time
\* range, the course, L, X and the room line verbatim.
C4_FiveLinesVerbatim ==
    (pc = "parsed" /\ input.kind = "five") =>
        lessons_from_cell =
            << [time_range |-> input.time, corso |-> Some(input.course),
                gruppo |-> Some(input.letter), docente |-> Some(input.name),
                aula |-> Some(input.room \o input.qualifier)] >>

\* C4, amended: the same cell yields exactly one template with the time
\* range, the course, L, X when X is a single word of letters longer than 2
\* characters, and the room line without its "(portatili)" qualifier; the
\* cell of the example yields the template of the example.
C4_FiveLinesAmended ==
    /\ (pc = "parsed" /\ input.kind = "five" /\ PlainName(input.name)) =>
          lessons_from_cell =
              << [time_range |-> input.time, corso |-> Some(input.course),
                  gruppo |-> Some(input.letter), docente |-> Some(input.name),
                  aula |-> Some(input.room)] >>
    /\ (/\ pc = "parsed"
        /\ cell_text = "10.00-13.00\nGraphic Design 2\nGruppo C\nProf.ssa Crescioli\nMultimedia Lab") =>
          lessons_from_cell =
              << [time_range |-> <<10, 0, 13, 0>>, corso |-> <<"Graphic Design 2">>,
                  gruppo |-> <<"C">>, docente |-> <<"Crescioli">>,
                  aula |-> <<"Multimedia Lab">>] >>

C4_Witness ==
    /\ pc = "parsed"
    /\ input.kind = "five"
    /\ input.name = "Crescioli"
    /\ input.qualifier = " (portatili)"
    /\ Len(lessons_from_cell) = 1
    /\ lessons_from_cell[1].aula = <<"Aula Magna">>

\* the lines of the cell that hold a time range, in their order
TimeLineIndices(ls) == {k \in 1..Len(ls) : parse_time(ls[k]) # None}

\* C5: a cell with exactly two time-range lines whose second block has no
\* course name when the cell ends yields exactly one lesson, the one of the
\* first block.
C5_SecondBlockDropped ==
    (/\ pc = "parsed"
     /\ Cardinality(TimeLineIndices(lines)) = 2
     /\ current_lesson.corso = None) =>
        /\ Len(lessons_from_cell) = 1
        /\ lessons_from_cell[1].time_range = parse_time(lines[Min(TimeLineIndices(lines))])

C5_Witness ==
    /\ pc = "parsed"
    /\ lines = <<"9.00-11.00", "Graphic Design 2", "14.00-16.00 Storia">>
    /\ current_lesson.time_range = <<14, 0, 16, 0>>
    /\ current_lesson.corso = None
    /\ Len(lessons_from_cell) = 1
    /\ lessons_from_cell[1].time_range = <<9, 0, 11, 0>>

\* a raw line that is not empty after trimming
NonBlankLine(l) == \E k \in 1..Len(l) : Char(l, k) \notin {" ", "\t", "\r", "\n"}

\* C6: a cell with fewer than 2 non-empty lines yields no lesson, whatever
\* its single line holds.
C6_FewerThanTwoLines ==
    (/\ pc = "parsed"
     /\ input.kind = "free"
     /\ Cardinality({k \in 1..Len(input.lines) : NonBlankLine(input.lines[k])}) < 2) =>
        lessons_from_cell = <<>>

C6_Witness ==
    /\ pc = "parsed"
    /\ input.kind = "free"
    /\ input.lines = <<"  ", "14.00-16.00 Storia">>
    /\ lessons_from_cell = <<>>

\* the days of the window that fall on the target weekday
TargetDays ==
    {d \in (semester_start.date)..(semester_end.date) : WeekdayOf(d) = weekday}

\* YYYY-MM-DD
DateText(d) == Pad(YearOf(d), 4) \o "-" \o Pad(MonthOf(d), 2) \o "-" \o Pad(DayOf(d), 2)

\* C7: the weekly loop creates events for exactly the days of the window
\* that fall on the target weekday, each once and none outside the window;
\* for semester 1 of 2024 and Monday the first is 2024-10-07 and the last
\* 2025-01-27.
C7_ExactlyTheTargetDays ==
    /\ \A k \in 1..Len(lesson_dates) : lesson_dates[k] \in TargetDays
    /\ \A j, k \in 1..Len(lesson_dates) : j # k => lesson_dates[j] # lesson_dates[k]
    /\ Len(lessons) = Len(lesson_dates) * Len(lessons_from_cell)
    /\ (pc = "done" /\ lessons_from_cell # <<>>) =>
          /\ {lesson_dates[k] : k \in 1..Len(lesson_dates)} = TargetDays
          /\ (semestre = 1 /\ base_year = 2024 /\ weekday = 0) =>
                /\ DateText(lesson_dates[1]) = "2024-10-07"
                /\ DateText(lesson_dates[Len(lesson_dates)]) = "2025-01-27"

C7_Witness ==
    /\ pc = "done"
    /\ semestre = 1 /\ base_year = 2024 /\ weekday = 4
    /\ Len(lesson_dates) = 18
    /\ DateText(lesson_dates[1]) = "2024-10-04"
    /\ DateText(lesson_dates[18]) = "2025-01-31"

\* the largest day of 25..31 that is a Sunday
LargestSunday(y, m) ==
    CHOOSE d \in 25..31 :
        /\ WeekdayOf(Ordinal(y, m, d)) = 6
        /\ \A e \in (d + 1)..31 : WeekdayOf(Ordinal(y, m, e)) # 6

\* from the last Sunday of March on, before the last Sunday of October
InSummerTime(y, m, d) ==
    /\ m > 3 \/ (m = 3 /\ d >= LargestSunday(y, 3))
    /\ m < 10 \/ (m = 10 /\ d < LargestSunday(y, 10))

\* C8: get_correct_timezone gives "+02:00" exactly from the last Sunday of
\* March (inclusive) to the last Sunday of October (exclusive) and "+01:00"
\* otherwise; a Sunday exists among the days 25..31 of both months, so that
\* get_dst_transition_dates is defined; 2025-01-15 gives "+01:00" and
\* 2025-07-15 gives "+02:00".
C8_DstRule ==
    pc = "timezone_done" =>
        /\ \E d \in 25..31 : WeekdayOf(Ordinal(input.y, 3, d)) = 6
        /\ \E d \in 25..31 : WeekdayOf(Ordinal(input.y, 10, d)) = 6
        /\ get_dst_transition_dates(input.y) # None
        /\ tz_result = Some(IF InSummerTime(input.y, input.m, input.d)
                            THEN "+02:00" ELSE "+01:00")
        /\ (input.y = 2025 /\ input.m = 1 /\ input.d = 15) => tz_result = <<"+01:00">>
        /\ (input.y = 2025 /\ input.m = 7 /\ input.d = 15) => tz_result = <<"+02:00">>
        /\ (input.y = 2025 /\ input.m = 3 /\ input.d = 29) => tz_result = <<"+01:00">>
        /\ (input.y = 2025 /\ input.m = 3 /\ input.d = 30) => tz_result = <<"+02:00">>
        /\ (input.y = 2025 /\ input.m = 10 /\ input.d = 25) => tz_result = <<"+02:00">>
        /\ (input.y = 2025 /\ input.m = 10 /\ input.d = 26) => tz_result = <<"+01:00">>

C8_Witness ==
    /\ pc = "timezone_done"
    /\ date_str = "2025-03-30T00:00:00+02:00"
    /\ tz_result = <<"+02:00">>

\* the text of the local time one hour after h:m on day d, seconds 0
OneHourLaterText(d, h, m) ==
    IF h + 1 < 24
    THEN DateText(d) \o "T" \o Pad(h + 1, 2) \o ":" \o Pad(m, 2) \o ":00"
    ELSE DateText(d + 1) \o "T00:" \o Pad(m, 2) \o ":00"

\* the event of the k-th date and the j-th template
EventAt(k, j) == lessons[(k - 1) * Len(lessons_from_cell) + j]

\* the start and the end of the event are those of template t on day d, one
\* hour later, seconds 0, followed by an offset
OneHourLater(event, d, t) ==
    /\ Len(event.start) = 25
    /\ SubSeq(event.start, 1, 19) = OneHourLaterText(d, t[1], t[2])
    /\ SubSeq(event.start, 20, 25) \in {"+01:00", "+02:00"}
    /\ Len(event.end) = 25
    /\ SubSeq(event.end, 1, 19) = OneHourLaterText(d, t[3], t[4])
    /\ SubSeq(event.end, 20, 25) \in {"+01:00", "+02:00"}

\* C9: the start and the end of every event are the start and the end of
\* its template on the date of the event plus exactly one hour, seconds 0,
\* followed by the offset (the events of the date just expanded, and all the
\* events when the expansion is over); the date 2024-11-04 with the time
\* (14,0,18,0) gives 2024-11-04T15:00:00+01:00 and 2024-11-04T19:00:00+01:00.
C9_OneHourAdded ==
    /\ \A k \in 1..Len(lesson_dates) : \A j \in 1..Len(lessons_from_cell) :
          (k = Len(lesson_dates) \/ pc = "done") =>
              OneHourLater(EventAt(k, j), lesson_dates[k], lessons_from_cell[j].time_range)
    /\ (/\ cell_text = "14.00-18.00\nDesign"
        /\ semestre = 1 /\ base_year = 2024 /\ weekday = 0
        /\ Len(lessons) >= 5) =>
          /\ lessons[5].start = "2024-11-04T15:00:00+01:00"
          /\ lessons[5].end = "2024-11-04T19:00:00+01:00"

C9_Witness ==
    /\ cell_text = "14.00-18.00\nDesign"
    /\ semestre = 1 /\ base_year = 2024 /\ weekday = 0
    /\ Len(lessons) = 5
    /\ lessons[5].start = "2024-11-04T15:00:00+01:00"
    /\ lessons[5].end = "2024-11-04T19:00:00+01:00"

\* the instant of a zoned timestamp, in minutes (the seconds apart)
InstantMinutes(text) ==
    LET p == fromisoformat(text)[1]
    IN  (p.dt.date * 24 + p.dt.hour) * 60 + p.dt.minute - p.tz[1]
StartsBeforeEnd(event) ==
    \/ InstantMinutes(event.start) < InstantMinutes(event.end)
    \/ /\ InstantMinutes(event.start) = InstantMinutes(event.end)
       /\ fromisoformat(event.start)[1].dt.second < fromisoformat(event.end)[1].dt.second

\* C10: every event built from a template of parse_cell_content has
\* start < end.
C10_StartBeforeEnd ==
    \A k \in 1..Len(lessons) : StartsBeforeEnd(lessons[k])

\* C11: the civil date of the start and of the end of every event is the
\* date the expansion step produced for it, also after the one-hour
\* correction.
C11_SameCivilDate ==
    \A k \in 1..Len(lesson_dates) : \A j \in 1..Len(lessons_from_cell) :
        /\ SubSeq(EventAt(k, j).start, 1, 10) = DateText(lesson_dates[k])
        /\ SubSeq(EventAt(k, j).end, 1, 10) = DateText(lesson_dates[k])

\* the offset of the rule of the last Sundays for the date written in a
\* timestamp
RuleOffset(text) ==
    IF InSummerTime(IntAt(text, 1, 4), IntAt(text, 6, 2), IntAt(text, 9, 2))
    THEN "+02:00" ELSE "+01:00"

\* C12: without a timezone database the offset attached to the start and to
\* the end of every event is the offset the rule of the last Sundays gives
\* for the corrected local date, and it is written as +01:00 or +02:00.
C12_FallbackFollowsRule ==
    ~has_zoneinfo =>
        \A k \in 1..Len(lessons) :
            /\ SubSeq(lessons[k].start, 20, 25) = RuleOffset(lessons[k].start)
            /\ SubSeq(lessons[k].end, 20, 25) = RuleOffset(lessons[k].end)

\* C17: in a cell of a time-range line, a course line, an instructor line
\* and one more line, the instructor of the template is the name of the
\* first instructor line, and null when that line yields no valid name (a
\* residue of at most 2 characters that the following line, being itself an
\* instructor line, does not complete).
C17_FirstInstructorLineOnly ==
    (/\ pc = "parsed"
     /\ input.kind = "profs"
     /\ input.following = "Prof. Rossi") =>
        /\ Len(lessons_from_cell) = 1
        /\ lessons_from_cell[1].docente =
              IF Len(input.residue) > 2 THEN Some(input.residue) ELSE None

\* a room line: it holds one of the eight room keywords, in any case
EightKeywords == {"LAB", "CONFERENCE", "MAGNA", "DIGITAL", "HUB", "VISUAL", "PHOTO", "3D"}
RoomLine(line) == \E w \in EightKeywords : Contains(Upper(line), w)

\* an instructor line: it holds "prof", in any case
InstructorLine(line) == Contains(Lower(line), "prof")

\* C18: the course name of every emitted template is no time-range line, no
\* line the group extractor matches, no instructor line, no room line and no
\* lone digit, also when the instructor or the room of the lesson is set.
C18_CourseIsNoOtherLine ==
    \A k \in 1..Len(lessons_from_cell) :
        lessons_from_cell[k].corso # None =>
            LET c == lessons_from_cell[k].corso[1]
            IN  /\ parse_time(c) = None
                /\ extract_group_from_text(c) = None
                /\ ~InstructorLine(c)
                /\ ~RoomLine(c)
                /\ ~(Len(c) = 1 /\ c \in DigitSet)

\* only letters, spaces, apostrophes, hyphens and slashes, more than 2 of them
PlausibleName(line) ==
    /\ Len(line) > 2
    /\ \A k \in 1..Len(line) :
          Char(line, k) \in (UpperSet \cup LowerSet \cup {" ", "'", "-", "/"})

\* C19: when the residue of the instructor line has at most 2 characters,
\* the following line becomes the instructor if and only if it is no room
\* line (of the eight keywords), no group token, no time range, and a
\* plausible name; otherwise the template has no instructor from this step.
C19_LookAheadRule ==
    (/\ pc = "parsed"
     /\ input.kind = "profs"
     /\ Len(input.residue) <= 2
     /\ ~InstructorLine(input.following)) =>
        /\ Len(lessons_from_cell) = 1
        /\ lessons_from_cell[1].docente =
              IF /\ ~RoomLine(input.following)
                 /\ extract_group_from_text(input.following) = None
                 /\ parse_time(input.following) = None
                 /\ PlausibleName(input.following)
              THEN Some(input.following) ELSE None

\* the (document, semester) pairs the batch has to attempt
DueAttempts ==
    {<<k, s>> \in (1..Len(pdfs)) \X {1, 2} :
        pdfs[k].semester = None \/ pdfs[k].semester = <<s>>}

\* the output files of the runs that succeeded, in the order of the runs
SucceededOutputs ==
    LET ok == SelectSeq(runs, LAMBDA r : r.returncode = 0)
    IN  [n \in 1..Len(ok) |-> ok[n].output]

\* the loop over the documents is over
LoopOver == pc = "batch_done" \/ (pc = "process_loop" /\ pdf_idx > Len(pdfs))

\* C13: the batch always comes to its end; when the loop over the documents
\* is over, every document has been run, once for its semester or once for
\* each of the semesters 1 and 2 when its name gives none, whatever the
\* return codes of the other runs were, and the generated list starts with
\* the output files of exactly the runs that succeeded.
C13_EveryPdfAttempted ==
    /\ [](LoopOver =>
            /\ {<<runs[n].pdf, runs[n].semestre>> : n \in 1..Len(runs)} = DueAttempts
            /\ Len(runs) = Cardinality(DueAttempts)
            /\ Len(all_generated) >= Len(SucceededOutputs)
            /\ SubSeq(all_generated, 1, Len(SucceededOutputs)) = SucceededOutputs)
    /\ <>(pc = "batch_done")

C13_Witness ==
    /\ pc = "batch_done"
    /\ Len(pdfs) = 2
    /\ pdfs[1].semester = None
    /\ Len(runs) = 3
    /\ runs[1].returncode = 1 /\ runs[2].returncode = 0 /\ runs[3].returncode = 0
    /\ skip_merge
    /\ all_generated = <<runs[2].output, runs[3].output>>


\* C14: when extract_lessons_from_pdf has returned, every page whose tables
\* could be read has given its lessons: a page whose extract_tables raises
\* leaves the lessons of the other pages in the result.
C14_OtherPagesKept ==
    pc = "returned" =>
        \A p \in 1..Len(pages) :
            ~pages[p].raises =>
                \A course \in pages[p].courses[semestre] :
                    \E k \in 1..Len(lessons) : lessons[k].corso = Some(course)


\* C15: a start or end that cannot be parsed as a timestamp is returned
\* unchanged by fix_timezone_in_event and by fix_hour_in_event, and the
\* corso of the event is kept.
C15_UnparsedUnchanged ==
    pc \in {"fixed_timezone", "fixed_hour"} =>
        /\ fixed[1].corso = event_arg.corso
        /\ fromisoformat(HourParseText(event_arg.start)) = None =>
               fixed[1].start = event_arg.start
        /\ fromisoformat(HourParseText(event_arg.end)) = None =>
               fixed[1].end = event_arg.end


\* C16: each downstream step returns as many events as it got, in the same
\* order, with the corso, anno, start and end of every event as they were.
C16_RequiredFieldsKept ==
    updated # <<>> =>
        /\ Len(updated[1]) = Len(events)
        /\ \A k \in 1..Len(events) :
               /\ updated[1][k].corso = events[k].corso
               /\ updated[1][k].anno = events[k].anno
               /\ updated[1][k].start = events[k].start
               /\ updated[1][k].end = events[k].end


\* C16 as amended: each downstream step returns as many events as it got, in
\* the same order, with the anno, start and end of every event as they
\* were; the corso is as it was too, except that rename_shared_courses gives
\* a shared course of the file's course of study its specific name.
C16_RequiredFieldsAmended ==
    updated # <<>> =>
        /\ Len(updated[1]) = Len(events)
        /\ \A k \in 1..Len(events) :
               /\ updated[1][k].anno = events[k].anno
               /\ updated[1][k].start = events[k].start
               /\ updated[1][k].end = events[k].end
               /\ \/ updated[1][k].corso = events[k].corso
                  \/ /\ pc = "renamed"
                     /\ SHARED_COURSES_MAP(corso_studio) # <<>>
                     /\ events[k].corso = Some(SHARED_COURSES_MAP(corso_studio)[1])
                     /\ updated[1][k].corso = Some(SHARED_COURSES_MAP(corso_studio)[2])

\* a file of two events of which rename_shared_courses renamed one and
\* kept the other
C16_Witness ==
    /\ pc = "renamed"
    /\ Len(events) = 2
    /\ updated[1][1].corso # events[1].corso
    /\ updated[1][2].corso = events[2].corso
    /\ Truthy(events[2].corso)


\* the letter of the first of the four forms that matches the line, allowed
\* or not
FirstStructuralMatch(s) == FirstSome([k \in 1..4 |-> GroupMatch(s, k)])

\* C20: extract_group_from_text decides on the first form that matches the
\* line: its result is the letter of that match when the letter is one of
\* A, B, C, Y, Z and no match otherwise, whatever a later form would give.
C20_FirstFormDecides ==
    pc = "group_done" =>
        /\ group_result[1] # None => group_result[1][1] \in GroupLetters
        /\ group_result[1] = AllowedLetter(FirstStructuralMatch(text_arg))


\* C21: a line 'Gruppo L', 'Gr. L' or 'L Gruppo', the keyword in any letter
\* case, gives the group L, for every L of A, B, C, Y, Z.
C21_KeywordAnyCase ==
    pc = "group_done" =>
        \A letter \in GroupLetters :
            text_arg \in KeywordForms(letter) => group_result[1] = Some(letter)


\* the line in hand belongs to the open lesson and the Group Extractor
\* matches it
GroupLineInHand ==
    /\ pc = "scan" /\ i <= Len(lines)
    /\ current_lesson.time_range # None
    /\ parse_time(lines[i]) = None
    /\ extract_group_from_text(lines[i]) # None

\* C22: in an open lesson the first line the Group Extractor matches sets
\* the group and is consumed (course, room and instructor stay as they are
\* and the scan moves to the next line), a later line it matches leaves the
\* group as it is, and the group of every template is A, B, C, Y, Z or null.
C22_GroupLineConsumed ==
    /\ [][GroupLineInHand =>
            IF current_lesson.gruppo = None
            THEN /\ current_lesson' = [current_lesson EXCEPT
                                          !.gruppo = extract_group_from_text(lines[i])]
                 /\ i' = i + 1
            ELSE current_lesson'.gruppo = current_lesson.gruppo]_vars
    /\ [](\A k \in 1..Len(lessons_from_cell) :
              \/ lessons_from_cell[k].gruppo = None
              \/ lessons_from_cell[k].gruppo[1] \in GroupLetters)

\* a lesson with two lines the Group Extractor matches was emitted with
\* the group of the first
C22_Witness ==
    /\ pc = "parsed"
    /\ input.kind = "groups" /\ input.first = "Gruppo A" /\ input.second = "gruppo B"
    /\ Len(lessons_from_cell) = 1
    /\ lessons_from_cell[1].gruppo = Some("A")


\* the header row of the table whose cells are being read
HeaderInHand ==
    pages[page_idx].tables[table_idx][HeaderRowOf(pages[page_idx].tables[table_idx])[1]]

\* C23: the column of every weekday token of the header row is the first
\* cell, from the left, that contains the token.
C23_FirstCellOfToken ==
    pc = "cells" =>
        \A k \in 1..Len(day_queue) :
            day_queue[k][2] = Min({c \in 1..Len(HeaderInHand) :
                                      Contains(Upper(HeaderInHand[c]), day_queue[k][1])})


\* the table in hand
TableInHand == pages[page_idx].tables[table_idx]

\* the rows with a marker of the requested semester among the 10 rows that
\* follow the header row of the table in hand
MarkedRows ==
    {r \in (HeaderRowOf(TableInHand)[1] + 1)..
               Min({HeaderRowOf(TableInHand)[1] + 10, Len(TableInHand)}) :
        RowMarksSemester(TableInHand[r], semestre)}

\* C24: a table with a header row is read exactly when one of the 10 rows
\* after the header has a marker of the requested semester in its first
\* cell, and the semester row is the first of these rows.
C24_TenRowsSearched ==
    /\ (/\ pc = "tables" /\ table_idx <= Len(pages[page_idx].tables)
        /\ Len(TableInHand) >= 2 /\ HeaderRowOf(TableInHand) # None)
           => (Recognised(TableInHand) <=> MarkedRows # {})
    /\ pc = "cells" => semester_row = Min(MarkedRows)


\* the n-th line of the cell that holds a time range
NthTimeLine(ls, n) ==
    CHOOSE k \in TimeLineIndices(ls) :
        Cardinality({j \in TimeLineIndices(ls) : j <= k}) = n

\* C25: the lessons emitted so far are in the order of their opening
\* time-range lines, the n-th emitted lesson being the one the n-th
\* time-range line of the cell opened, so that no time-range line opens two
\* of them.
C25_EmittedInOrder ==
    pc \in {"scan", "parsed"} =>
        /\ Len(lessons_from_cell) <= Cardinality(TimeLineIndices(lines))
        /\ \A n \in 1..Len(lessons_from_cell) :
               lessons_from_cell[n].time_range = parse_time(lines[NthTimeLine(lines, n)])

\* two lessons were emitted, the first of them without a course
C25_Witness ==
    /\ pc = "parsed"
    /\ lines = <<"14.00-16.00 Storia", "9.00-11.00", "Graphic Design 2">>
    /\ Len(lessons_from_cell) = 2
    /\ lessons_from_cell[1].time_range = <<14, 0, 16, 0>>
    /\ lessons_from_cell[2].time_range = <<9, 0, 11, 0>>


\* C26: the weekly loop ends for every weekday and window; while it runs
\* the cursor moves on by exactly 7 days per iteration, consecutive dates
\* with events are exactly 7 days apart and none is after the end, and when
\* it has ended the next date of the weekday is after the end of the window.
C26_WeeklyLoopTerminates ==
    /\ (pc = "weeks") ~> (pc = "done")
    /\ [][(pc = "weeks" /\ pc' = "weeks") =>
              current_date'.date = current_date.date + 7]_vars
    /\ [](/\ \A k \in 1..Len(lesson_dates) : lesson_dates[k] <= semester_end.date
          /\ \A k \in 1..(Len(lesson_dates) - 1) :
                 lesson_dates[k + 1] = lesson_dates[k] + 7
          /\ (pc = "done" /\ lesson_dates # <<>>) =>
                 lesson_dates[Len(lesson_dates)] + 7 > semester_end.date)

\* the loop has ended by the break of line 418 after 17 weeks
C26_Witness ==
    /\ pc = "done"
    /\ semestre = 1 /\ base_year = 2024 /\ weekday = 0
    /\ Len(lesson_dates) = 17
    /\ DtLeq(current_date, semester_end)


\* the offset, in minutes, of a text that is a timestamp with an offset
OffsetOf(s) ==
    LET parsed == fromisoformat(s)
    IN  IF parsed = None THEN None ELSE parsed[1].tz

\* the timestamp with its date and time as they are and the offset of the
\* rule of the last Sundays for its date
WithRuleOffset(s) == SubSeq(s, 1, Len(s) - 6) \o RuleOffset(s)

C27_PlusTwoRepaired ==
    pc = "fixed_timezone" =>
        /\ OffsetOf(event_arg.start) = Some(120) =>
               fixed[1].start = WithRuleOffset(event_arg.start)
        /\ OffsetOf(event_arg.end) = Some(120) =>
               fixed[1].end = WithRuleOffset(event_arg.end)


\* the keys of COURSE_MAP that a folder name is equal to, letter case aside
KeysEqualTo(name) == {k \in 1..Len(COURSE_MAP) : Upper(name) = COURSE_MAP[k][1]}

\* C28: for a folder name equal, letter case aside, to a key of COURSE_MAP,
\* find_course_code returns the code COURSE_MAP gives to that key
\* ('INTERIOR DESIGN' gives 'INT', 'GRAPHIC DESIGN' gives 'GD', 'REGIA E
\* VIDEOMAKING' gives 'REGIA', 'DESIGN' gives 'DES').
C28_CodeOfEqualKey ==
    pc = "course_done" =>
        \A k \in KeysEqualTo(course_name) : course_code = Some(Some(COURSE_MAP[k][2]))


\* how often an event is in a list
Occurrences(e, evs) == Cardinality({k \in 1..Len(evs) : evs[k] = e})

\* the events of a list that start at v, in their order
StartingAt(evs, v) == SelectSeq(evs, LAMBDA x : x.start = v)

\* C29: the list merge_semesters saves holds the events of both files, each
\* as often as the two files hold it, and so as many as both together; the
\* start never gets smaller along the list; the events of one start are in
\* the order of their file, those of the first semester before those of the
\* second.
C29_MergedSorted ==
    pc = "merge_done" =>
        LET m == merged_data[1]
        IN  /\ Len(m) = Len(s1_data) + Len(s2_data)
            /\ \A e \in MergeSamples :
                   Occurrences(e, m) = Occurrences(e, s1_data) + Occurrences(e, s2_data)
            /\ \A k \in 1..(Len(m) - 1) : ~StrLess(m[k + 1].start, m[k].start)
            /\ \A e \in MergeSamples :
                   StartingAt(m, e.start)
                       = StartingAt(s1_data, e.start) \o StartingAt(s2_data, e.start)

C29_Witness ==
    /\ pc = "merge_done"
    /\ s1_data = <<[corso |-> "Design", start |-> "2025-02-03T10:00:00+01:00"],
                   [corso |-> "Regia", start |-> "2024-10-07T10:00:00+02:00"]>>
    /\ s2_data = <<[corso |-> "Design", start |-> "2024-10-07T10:00:00+02:00"],
                   [corso |-> "Regia", start |-> ""]>>
    /\ merged_data = Some(<<[corso |-> "Regia", start |-> ""],
                            [corso |-> "Regia", start |-> "2024-10-07T10:00:00+02:00"],
                            [corso |-> "Design", start |-> "2024-10-07T10:00:00+02:00"],
                            [corso |-> "Design", start |-> "2025-02-03T10:00:00+01:00"]>>)


\* C30: fix_hour_in_event applied to an event of create_lesson_event gives
\* the start and the end at the times of the time range of the template on
\* the date of the expansion, each with the offset text it had; every other
\* field is as it was, and the event handed in is still the one that
\* create_lesson_event built.
C30_HourFixUndoesCapture ==
    (pc = "fixed_hour" /\ input.kind = "built") =>
        LET t == input.time_range
        IN  /\ fixed[1].start
                   = FormatNaive(ReplaceTime(input.date, t[1], t[2]))
                         \o SubSeq(event_arg.start, 20, 25)
            /\ fixed[1].end
                   = FormatNaive(ReplaceTime(input.date, t[3], t[4]))
                         \o SubSeq(event_arg.end, 20, 25)
            /\ Len(fixed[1].start) = 25 /\ Len(fixed[1].end) = 25
            /\ DOMAIN fixed[1] = DOMAIN event_arg
            /\ \A f \in DOMAIN event_arg \ {"start", "end"} : fixed[1][f] = event_arg[f]
            /\ event_arg = create_lesson_event(Some("Design"), 1, Some("A"), None, None,
                                               input.date, <<t[1], t[2]>>, <<t[3], t[4]>>,
                                               None, has_zoneinfo)

C30_Witness ==
    /\ pc = "fixed_hour"
    /\ input = [kind |-> "built", date |-> Datetime(2024, 12, 31),
                time_range |-> <<23, 0, 23, 59>>]
    /\ event_arg.start = "2025-01-01T00:00:00+01:00"
    /\ event_arg.end = "2025-01-01T00:59:00+01:00"
    /\ fixed[1].start = "2024-12-31T23:00:00+01:00"
    /\ fixed[1].end = "2024-12-31T23:59:00+01:00"

====
